---- MODULE Spec2Model ----
(***************************************************************************)
(* authzee: the in-process grant store (InProcessStorage), the in-process  *)
(* decision scan (InProcessCompute.authorize) and the page evaluation of   *)
(* authzee.core that the scan calls.                                       *)
(*                                                                         *)
(* A grant is a record; its `actions` is the list it was given with, in    *)
(* its order and with its repetitions.  A page reference is a Python str   *)
(* and is kept as a tuple of one-character strings (a character outside    *)
(* ASCII is written by its code point), None is Python's None.             *)
(* compute/fan_out_mp_compute.py is no part of the model: the file does    *)
(* not compile, and nothing of the package imports it.                     *)
(***************************************************************************)
EXTENDS Integers, Sequences, FiniteSets, TLC

\* ---------------------------------------------------------------- bounds
\* grant dicts created in a behaviour in which the caller mutates what it holds
MaxObjs == 6
\* number of enact calls in a behaviour (the store never holds more grants)
MaxGrants == 3

\* number of create_latch calls in a behaviour
MaxLatches == 2

\* ticks of the clock that stamps created_at
MaxClock == 1
\* grants_page_size ranges over 1..MaxPageSize
MaxPageSize == 2
\* refs_page_size ranges over 1..MaxRefsPageSize
MaxRefsPageSize == 2

\* the calls of one app that await their executor at one time
MaxCalls == 2

\* ------------------------------------------------------------ vocabulary
\* Python's None where a str such as an effect or an action is expected
None == "None"

\* Python's None where a page reference is expected (no str is this tuple)
NoPageRef == <<"None">>

Effects == {"allow", "deny"}

\* actions declared by the resource definitions the engine was started with
Actions == {"Balloon:Read", "Balloon:Inflate"}

\* keys of the by-action indexes: every declared action, and None for the
\* grants whose actions list is empty
ActionKeys == Actions \cup {None}

PageSizes == 1..MaxPageSize

RefsPageSizes == 1..MaxRefsPageSize

\* ------------------------------------------------- Python helpers (pure)
Min(a, b) == IF a < b THEN a ELSE b

Max(a, b) == IF a < b THEN b ELSE a

DigitChars == <<"0", "1", "2", "3", "4", "5", "6", "7", "8", "9">>

\* the decimal digits (Unicode category Nd, Unicode 14.0.0 in Python 3.11): each
\* row holds the digits zero to nine of one script; a character outside printable
\* ASCII is written by its code point
DecimalDigits ==
    <<DigitChars,
      <<"U+0660", "U+0661", "U+0662", "U+0663", "U+0664",
        "U+0665", "U+0666", "U+0667", "U+0668", "U+0669">>,
      <<"U+06F0", "U+06F1", "U+06F2", "U+06F3", "U+06F4",
        "U+06F5", "U+06F6", "U+06F7", "U+06F8", "U+06F9">>,
      <<"U+07C0", "U+07C1", "U+07C2", "U+07C3", "U+07C4",
        "U+07C5", "U+07C6", "U+07C7", "U+07C8", "U+07C9">>,
      <<"U+0966", "U+0967", "U+0968", "U+0969", "U+096A",
        "U+096B", "U+096C", "U+096D", "U+096E", "U+096F">>,
      <<"U+09E6", "U+09E7", "U+09E8", "U+09E9", "U+09EA",
        "U+09EB", "U+09EC", "U+09ED", "U+09EE", "U+09EF">>,
      <<"U+0A66", "U+0A67", "U+0A68", "U+0A69", "U+0A6A",
        "U+0A6B", "U+0A6C", "U+0A6D", "U+0A6E", "U+0A6F">>,
      <<"U+0AE6", "U+0AE7", "U+0AE8", "U+0AE9", "U+0AEA",
        "U+0AEB", "U+0AEC", "U+0AED", "U+0AEE", "U+0AEF">>,
      <<"U+0B66", "U+0B67", "U+0B68", "U+0B69", "U+0B6A",
        "U+0B6B", "U+0B6C", "U+0B6D", "U+0B6E", "U+0B6F">>,
      <<"U+0BE6", "U+0BE7", "U+0BE8", "U+0BE9", "U+0BEA",
        "U+0BEB", "U+0BEC", "U+0BED", "U+0BEE", "U+0BEF">>,
      <<"U+0C66", "U+0C67", "U+0C68", "U+0C69", "U+0C6A",
        "U+0C6B", "U+0C6C", "U+0C6D", "U+0C6E", "U+0C6F">>,
      <<"U+0CE6", "U+0CE7", "U+0CE8", "U+0CE9", "U+0CEA",
        "U+0CEB", "U+0CEC", "U+0CED", "U+0CEE", "U+0CEF">>,
      <<"U+0D66", "U+0D67", "U+0D68", "U+0D69", "U+0D6A",
        "U+0D6B", "U+0D6C", "U+0D6D", "U+0D6E", "U+0D6F">>,
      <<"U+0DE6", "U+0DE7", "U+0DE8", "U+0DE9", "U+0DEA",
        "U+0DEB", "U+0DEC", "U+0DED", "U+0DEE", "U+0DEF">>,
      <<"U+0E50", "U+0E51", "U+0E52", "U+0E53", "U+0E54",
        "U+0E55", "U+0E56", "U+0E57", "U+0E58", "U+0E59">>,
      <<"U+0ED0", "U+0ED1", "U+0ED2", "U+0ED3", "U+0ED4",
        "U+0ED5", "U+0ED6", "U+0ED7", "U+0ED8", "U+0ED9">>,
      <<"U+0F20", "U+0F21", "U+0F22", "U+0F23", "U+0F24",
        "U+0F25", "U+0F26", "U+0F27", "U+0F28", "U+0F29">>,
      <<"U+1040", "U+1041", "U+1042", "U+1043", "U+1044",
        "U+1045", "U+1046", "U+1047", "U+1048", "U+1049">>,
      <<"U+1090", "U+1091", "U+1092", "U+1093", "U+1094",
        "U+1095", "U+1096", "U+1097", "U+1098", "U+1099">>,
      <<"U+17E0", "U+17E1", "U+17E2", "U+17E3", "U+17E4",
        "U+17E5", "U+17E6", "U+17E7", "U+17E8", "U+17E9">>,
      <<"U+1810", "U+1811", "U+1812", "U+1813", "U+1814",
        "U+1815", "U+1816", "U+1817", "U+1818", "U+1819">>,
      <<"U+1946", "U+1947", "U+1948", "U+1949", "U+194A",
        "U+194B", "U+194C", "U+194D", "U+194E", "U+194F">>,
      <<"U+19D0", "U+19D1", "U+19D2", "U+19D3", "U+19D4",
        "U+19D5", "U+19D6", "U+19D7", "U+19D8", "U+19D9">>,
      <<"U+1A80", "U+1A81", "U+1A82", "U+1A83", "U+1A84",
        "U+1A85", "U+1A86", "U+1A87", "U+1A88", "U+1A89">>,
      <<"U+1A90", "U+1A91", "U+1A92", "U+1A93", "U+1A94",
        "U+1A95", "U+1A96", "U+1A97", "U+1A98", "U+1A99">>,
      <<"U+1B50", "U+1B51", "U+1B52", "U+1B53", "U+1B54",
        "U+1B55", "U+1B56", "U+1B57", "U+1B58", "U+1B59">>,
      <<"U+1BB0", "U+1BB1", "U+1BB2", "U+1BB3", "U+1BB4",
        "U+1BB5", "U+1BB6", "U+1BB7", "U+1BB8", "U+1BB9">>,
      <<"U+1C40", "U+1C41", "U+1C42", "U+1C43", "U+1C44",
        "U+1C45", "U+1C46", "U+1C47", "U+1C48", "U+1C49">>,
      <<"U+1C50", "U+1C51", "U+1C52", "U+1C53", "U+1C54",
        "U+1C55", "U+1C56", "U+1C57", "U+1C58", "U+1C59">>,
      <<"U+A620", "U+A621", "U+A622", "U+A623", "U+A624",
        "U+A625", "U+A626", "U+A627", "U+A628", "U+A629">>,
      <<"U+A8D0", "U+A8D1", "U+A8D2", "U+A8D3", "U+A8D4",
        "U+A8D5", "U+A8D6", "U+A8D7", "U+A8D8", "U+A8D9">>,
      <<"U+A900", "U+A901", "U+A902", "U+A903", "U+A904",
        "U+A905", "U+A906", "U+A907", "U+A908", "U+A909">>,
      <<"U+A9D0", "U+A9D1", "U+A9D2", "U+A9D3", "U+A9D4",
        "U+A9D5", "U+A9D6", "U+A9D7", "U+A9D8", "U+A9D9">>,
      <<"U+A9F0", "U+A9F1", "U+A9F2", "U+A9F3", "U+A9F4",
        "U+A9F5", "U+A9F6", "U+A9F7", "U+A9F8", "U+A9F9">>,
      <<"U+AA50", "U+AA51", "U+AA52", "U+AA53", "U+AA54",
        "U+AA55", "U+AA56", "U+AA57", "U+AA58", "U+AA59">>,
      <<"U+ABF0", "U+ABF1", "U+ABF2", "U+ABF3", "U+ABF4",
        "U+ABF5", "U+ABF6", "U+ABF7", "U+ABF8", "U+ABF9">>,
      <<"U+FF10", "U+FF11", "U+FF12", "U+FF13", "U+FF14",
        "U+FF15", "U+FF16", "U+FF17", "U+FF18", "U+FF19">>,
      <<"U+104A0", "U+104A1", "U+104A2", "U+104A3", "U+104A4",
        "U+104A5", "U+104A6", "U+104A7", "U+104A8", "U+104A9">>,
      <<"U+10D30", "U+10D31", "U+10D32", "U+10D33", "U+10D34",
        "U+10D35", "U+10D36", "U+10D37", "U+10D38", "U+10D39">>,
      <<"U+11066", "U+11067", "U+11068", "U+11069", "U+1106A",
        "U+1106B", "U+1106C", "U+1106D", "U+1106E", "U+1106F">>,
      <<"U+110F0", "U+110F1", "U+110F2", "U+110F3", "U+110F4",
        "U+110F5", "U+110F6", "U+110F7", "U+110F8", "U+110F9">>,
      <<"U+11136", "U+11137", "U+11138", "U+11139", "U+1113A",
        "U+1113B", "U+1113C", "U+1113D", "U+1113E", "U+1113F">>,
      <<"U+111D0", "U+111D1", "U+111D2", "U+111D3", "U+111D4",
        "U+111D5", "U+111D6", "U+111D7", "U+111D8", "U+111D9">>,
      <<"U+112F0", "U+112F1", "U+112F2", "U+112F3", "U+112F4",
        "U+112F5", "U+112F6", "U+112F7", "U+112F8", "U+112F9">>,
      <<"U+11450", "U+11451", "U+11452", "U+11453", "U+11454",
        "U+11455", "U+11456", "U+11457", "U+11458", "U+11459">>,
      <<"U+114D0", "U+114D1", "U+114D2", "U+114D3", "U+114D4",
        "U+114D5", "U+114D6", "U+114D7", "U+114D8", "U+114D9">>,
      <<"U+11650", "U+11651", "U+11652", "U+11653", "U+11654",
        "U+11655", "U+11656", "U+11657", "U+11658", "U+11659">>,
      <<"U+116C0", "U+116C1", "U+116C2", "U+116C3", "U+116C4",
        "U+116C5", "U+116C6", "U+116C7", "U+116C8", "U+116C9">>,
      <<"U+11730", "U+11731", "U+11732", "U+11733", "U+11734",
        "U+11735", "U+11736", "U+11737", "U+11738", "U+11739">>,
      <<"U+118E0", "U+118E1", "U+118E2", "U+118E3", "U+118E4",
        "U+118E5", "U+118E6", "U+118E7", "U+118E8", "U+118E9">>,
      <<"U+11950", "U+11951", "U+11952", "U+11953", "U+11954",
        "U+11955", "U+11956", "U+11957", "U+11958", "U+11959">>,
      <<"U+11C50", "U+11C51", "U+11C52", "U+11C53", "U+11C54",
        "U+11C55", "U+11C56", "U+11C57", "U+11C58", "U+11C59">>,
      <<"U+11D50", "U+11D51", "U+11D52", "U+11D53", "U+11D54",
        "U+11D55", "U+11D56", "U+11D57", "U+11D58", "U+11D59">>,
      <<"U+11DA0", "U+11DA1", "U+11DA2", "U+11DA3", "U+11DA4",
        "U+11DA5", "U+11DA6", "U+11DA7", "U+11DA8", "U+11DA9">>,
      <<"U+16A60", "U+16A61", "U+16A62", "U+16A63", "U+16A64",
        "U+16A65", "U+16A66", "U+16A67", "U+16A68", "U+16A69">>,
      <<"U+16AC0", "U+16AC1", "U+16AC2", "U+16AC3", "U+16AC4",
        "U+16AC5", "U+16AC6", "U+16AC7", "U+16AC8", "U+16AC9">>,
      <<"U+16B50", "U+16B51", "U+16B52", "U+16B53", "U+16B54",
        "U+16B55", "U+16B56", "U+16B57", "U+16B58", "U+16B59">>,
      <<"U+1D7CE", "U+1D7CF", "U+1D7D0", "U+1D7D1", "U+1D7D2",
        "U+1D7D3", "U+1D7D4", "U+1D7D5", "U+1D7D6", "U+1D7D7">>,
      <<"U+1D7D8", "U+1D7D9", "U+1D7DA", "U+1D7DB", "U+1D7DC",
        "U+1D7DD", "U+1D7DE", "U+1D7DF", "U+1D7E0", "U+1D7E1">>,
      <<"U+1D7E2", "U+1D7E3", "U+1D7E4", "U+1D7E5", "U+1D7E6",
        "U+1D7E7", "U+1D7E8", "U+1D7E9", "U+1D7EA", "U+1D7EB">>,
      <<"U+1D7EC", "U+1D7ED", "U+1D7EE", "U+1D7EF", "U+1D7F0",
        "U+1D7F1", "U+1D7F2", "U+1D7F3", "U+1D7F4", "U+1D7F5">>,
      <<"U+1D7F6", "U+1D7F7", "U+1D7F8", "U+1D7F9", "U+1D7FA",
        "U+1D7FB", "U+1D7FC", "U+1D7FD", "U+1D7FE", "U+1D7FF">>,
      <<"U+1E140", "U+1E141", "U+1E142", "U+1E143", "U+1E144",
        "U+1E145", "U+1E146", "U+1E147", "U+1E148", "U+1E149">>,
      <<"U+1E2F0", "U+1E2F1", "U+1E2F2", "U+1E2F3", "U+1E2F4",
        "U+1E2F5", "U+1E2F6", "U+1E2F7", "U+1E2F8", "U+1E2F9">>,
      <<"U+1E950", "U+1E951", "U+1E952", "U+1E953", "U+1E954",
        "U+1E955", "U+1E956", "U+1E957", "U+1E958", "U+1E959">>,
      <<"U+1FBF0", "U+1FBF1", "U+1FBF2", "U+1FBF3", "U+1FBF4",
        "U+1FBF5", "U+1FBF6", "U+1FBF7", "U+1FBF8", "U+1FBF9">>>>

NdChars == {DecimalDigits[row][d] : row \in 1..Len(DecimalDigits), d \in 1..10}

\* unicodedata.digit(c) of each decimal digit c
DigitOf ==
    [c \in NdChars |->
        CHOOSE d \in 0..9 : \E row \in 1..Len(DecimalDigits) : DecimalDigits[row][d + 1] = c]

\* str(n) for an int n
RECURSIVE str(_)
str(n) ==
    IF n < 0 THEN <<"-">> \o str(0 - n)
    ELSE IF n < 10 THEN <<DigitChars[n + 1]>>
    ELSE str(n \div 10) \o <<DigitChars[(n % 10) + 1]>>

DigitValue(c) == DigitOf[c]

IsDigit(c) == c \in NdChars

RECURSIVE DigitsValue(_)
DigitsValue(s) ==
    IF Len(s) = 0 THEN 0
    ELSE 10 * DigitsValue(SubSeq(s, 1, Len(s) - 1)) + DigitValue(s[Len(s)])

\* the characters that int() drops around a literal: the whitespace of ASCII
\* (tab, line feed, vertical tab, form feed, carriage return, space) and every
\* whitespace character of Unicode outside ASCII; the separators U+001C to
\* U+001F are whitespace for str.isspace and not for int()
Whitespace ==
    {"\t", "\n", "U+000B", "\f", "\r", " ", "U+0085", "U+00A0", "U+1680", "U+2000", "U+2001",
     "U+2002", "U+2003", "U+2004", "U+2005", "U+2006", "U+2007", "U+2008", "U+2009", "U+200A",
     "U+2028", "U+2029", "U+202F", "U+205F", "U+3000"}

IsSpace(c) == c \in Whitespace

\* s.lstrip()
RECURSIVE lstrip(_)
lstrip(s) == IF Len(s) > 0 /\ IsSpace(s[1]) THEN lstrip(Tail(s)) ELSE s

\* s.rstrip()
RECURSIVE rstrip(_)
rstrip(s) ==
    IF Len(s) > 0 /\ IsSpace(s[Len(s)]) THEN rstrip(SubSeq(s, 1, Len(s) - 1)) ELSE s

\* the digits of a decimal literal: decimal digits, with single underscores
\* between two of them
IsDigitRun(s) ==
    /\ Len(s) > 0
    /\ \A i \in 1..Len(s) :
          \/ IsDigit(s[i])
          \/ /\ s[i] = "_"
             /\ 1 < i /\ i < Len(s)
             /\ IsDigit(s[i - 1]) /\ IsDigit(s[i + 1])

\* int(text) of a str: whitespace around the literal is dropped, then comes an
\* optional sign, then the digits; ValueError for any other text
int_literal(s) ==
    LET text == rstrip(lstrip(s))
        signed == Len(text) > 0 /\ text[1] \in {"+", "-"}
        digits == IF signed THEN Tail(text) ELSE text
        magnitude == DigitsValue(SelectSeq(digits, IsDigit))
    IN  IF IsDigitRun(digits)
        THEN [raises |-> FALSE,
              value |-> IF signed /\ text[1] = "-" THEN 0 - magnitude ELSE magnitude]
        ELSE [raises |-> TRUE, value |-> 0]

\* int(s): the argument is evaluated once, then parsed
int(s) == CHOOSE parsed \in {int_literal(text) : text \in {s}} : TRUE

\* a slice index of a list of length n as Python normalises it: a negative one
\* counts from the end, and the result is clamped to 0..n
SliceIndex(i, n) == IF i < 0 THEN Max(i + n, 0) ELSE Min(i, n)

\* seq[start:end]
Slice(seq, start, end) ==
    SubSeq(seq, SliceIndex(start, Len(seq)) + 1, SliceIndex(end, Len(seq)))

\* [g for g in seq if g['grant_uuid'] != uuid_str]
WithoutUuid(seq, uuid_str) == SelectSeq(seq, LAMBDA g : g.grant_uuid # uuid_str)

Range(seq) == {seq[i] : i \in 1..Len(seq)}

\* ------------------------------------------------------------------ state
VARIABLES
    grant_lut,            \* storage_ptr['grant_lut']: the grants, in insertion order
    grant_effect_filter,  \* storage_ptr['grant_effect_filter'][effect]
    grant_action_filter,  \* storage_ptr['grant_action_filter'][action | None]
    grant_both_filter,    \* storage_ptr['grant_both_filter'][effect][action | None]
    uuid_ctr,             \* number of uuid4() values drawn so far
    sc_pc,                \* a client iterating get_grants_page: idle, scan, done
    sc_args,              \* its effect, action and grants_page_size
    sc_page_ref,          \* the page_ref of its next call
    sc_grants,            \* the grants its pages returned so far, concatenated
    sc_calls,             \* the number of get_grants_page calls it made
    sc_pass,              \* 1 in its first iteration, 2 when it iterates again
    sc_first,             \* what its first iteration returned
    az_pc,                \* InProcessCompute.authorize: idle, deny, allow, done
    az_args,              \* its request, grants_page_size, parallel_paging, refs_page_size
    az_page_ref,          \* page_ref of the running _page_gen
    az_resp,              \* its local resp: the response of the last page evaluated
    az_log,               \* the slabs it fetched and evaluated so far, in order
    au_pc,                \* a client iterating audit_page: idle, audit, done
    au_args,              \* its request, grants_page_size, parallel_paging, refs_page_size
    au_page_ref,          \* the page_ref of its next audit_page call
    au_log,               \* the slabs and audit responses it received so far, in order
    rf_pc,                \* a client iterating get_grant_page_refs_page: idle, refs, done
    rf_refs_page_size,    \* its refs_page_size
    rf_page_ref,          \* the page_ref of its next get_grant_page_refs_page call
    rf_log,               \* the refs pages it received, each with the pages of its refs
    cur_call,             \* the last paging call made with a page_ref of the caller's
                          \* choice, with its outcome
    cp_heap,              \* the grant dicts alive: object number -> its value, the
                          \* object holding its nested values, the uuid it is stored
                          \* under (0: not the store's), whether the caller holds it
    cp_enacted,           \* uuid -> the grant as it was enacted
    cp_read,              \* the grants the last read returned, if no dict changed since
    eng,                  \* the AuthzeeAsync app: its lifecycle state, whether it has
                          \* its _storage, the class of its _compute and whether that
                          \* was started, whether the tables of its storage instance
                          \* are those of storage_ptr, and what it was built with
    sh_lut,               \* _grant_lut of the app's storage instance once shutdown()
                          \* has rebound it to a new dict
    life_out,             \* the last call on the app and its outcome
    kc_call,              \* the last call of enact, repeal or get_grant: its key,
                          \* its outcome and the tables before it
    kc_returned,          \* the grants enact has returned
    kc_repealed,          \* the uuids repeal has removed
    fa_out,               \* the last call of enact, authorize or audit_page on the
                          \* started app, with its outcome
    latch_lut,            \* _latch_lut of the storage: the latches in insertion order
    lt_ctr,               \* how many storage latches were created
    lt_now,               \* the clock that datetime.now reads
    lt_shm,               \* a SharedMemLatch
    lt_set,               \* the uuids on which set_latch has succeeded
    lt_call,              \* the last latch call: its argument, its outcome, and the
                          \* latches before it
    pp_out,               \* the last authorize or audit_page call of InProcessCompute
                          \* over a storage of some kind, with its outcome
    sh_latch_lut,         \* _latch_lut of the app's storage instance once shutdown()
                          \* has rebound it to a new dict
    rd_out,               \* the last read through a storage instance bound to
                          \* storage_ptr, and whether it followed shutdown()
    mp_compute,           \* a MultiprocessCompute: its _executor and public vars
    mp_calls,             \* its authorize and audit_page calls that await the
                          \* executor, each with its arguments
    mp_out,               \* the last call of it that ended, with its outcome
    ix_call,              \* the last enact call made on the storage directly: its
                          \* grant, its outcome and the tables before it
    sw_live,        \* the grants the app's enact returned and repeal did not remove
    sw_out,         \* the last scan of the compute, with the app's pages of that moment
    cw_touched,     \* the uuids enacted or repealed since the scan under way began
    pg_pc,          \* the scans of a call of the compute: "idle", "scan", "done",
                    \* "returned" or "raised"
    pg_args,        \* the request, the sizes and the effect of the scan under way
    pg_page_ref,    \* the page_ref of its next _get_page_or_pages call
    pg_calls        \* the parity of the number of page calls the scan has made

store_vars == <<grant_lut, grant_effect_filter, grant_action_filter,
                grant_both_filter, uuid_ctr>>

scan_vars == <<sc_pc, sc_args, sc_page_ref, sc_grants, sc_calls, sc_pass, sc_first>>

auth_vars == <<az_pc, az_args, az_page_ref, az_resp, az_log>>

audit_vars == <<au_pc, au_args, au_page_ref, au_log>>

refs_vars == <<rf_pc, rf_refs_page_size, rf_page_ref, rf_log>>

\* the state of the parts of the engine other than the store, the paging client
\* and InProcessCompute.authorize
copy_vars == <<cp_heap, cp_enacted, cp_read>>

life_vars == <<eng, sh_lut, life_out>>

key_vars == <<kc_call, kc_returned, kc_repealed>>

latch_vars == <<latch_lut, lt_ctr, lt_now, lt_shm, lt_set, lt_call>>

paged_vars == <<pp_out>>

inst_vars == <<sh_latch_lut, rd_out>>

deleg_vars == <<mp_compute, mp_calls, mp_out>>

index_vars == <<ix_call>>

shared_vars == <<sw_live, sw_out>>

writer_vars == <<cw_touched>>

pagegen_vars == <<pg_pc, pg_args, pg_page_ref, pg_calls>>

ext_vars ==
    <<audit_vars, refs_vars, cur_call, copy_vars, life_vars, key_vars, fa_out,
      latch_vars,
      paged_vars,
      inst_vars,
      deleg_vars,
      index_vars,
      shared_vars,
      writer_vars,
      pagegen_vars>>


\* what the audit client leaves alone, besides the store
not_audit ==
    <<scan_vars, auth_vars, refs_vars, cur_call, copy_vars, life_vars, key_vars, fa_out,
      latch_vars,
      paged_vars,
      inst_vars,
      deleg_vars,
      index_vars,
      shared_vars,
      writer_vars,
      pagegen_vars>>

\* what the refs client leaves alone, besides the store
not_refs ==
    <<scan_vars, auth_vars, audit_vars, cur_call, copy_vars, life_vars, key_vars, fa_out,
      latch_vars,
      paged_vars,
      inst_vars,
      deleg_vars,
      index_vars,
      shared_vars,
      writer_vars,
      pagegen_vars>>

\* what a paging call with a caller-chosen page_ref leaves alone, besides the store
not_cursor ==
    <<scan_vars, auth_vars, audit_vars, refs_vars, copy_vars, life_vars, key_vars, fa_out,
      latch_vars,
      paged_vars,
      inst_vars,
      deleg_vars,
      index_vars,
      shared_vars,
      writer_vars,
      pagegen_vars>>

\* what calls on the app leave alone, besides the store
not_life ==
    <<scan_vars, auth_vars, audit_vars, refs_vars, cur_call, copy_vars, key_vars, fa_out,
      latch_vars,
      paged_vars,
      rd_out,
      deleg_vars,
      index_vars,
      shared_vars,
      writer_vars,
      pagegen_vars>>

\* what the caller holding grant dicts leaves alone, besides the store
not_copy ==
    <<scan_vars, auth_vars, audit_vars, refs_vars, cur_call, life_vars, key_vars, fa_out,
      latch_vars,
      paged_vars,
      inst_vars,
      deleg_vars,
      index_vars,
      shared_vars,
      writer_vars,
      pagegen_vars>>

\* what calls with a grant_uuid key leave alone, besides the store
not_key ==
    <<scan_vars, auth_vars, audit_vars, refs_vars, cur_call, copy_vars, life_vars, fa_out,
      latch_vars,
      paged_vars,
      inst_vars,
      deleg_vars,
      index_vars,
      shared_vars,
      writer_vars,
      pagegen_vars>>

\* what validated calls on the app leave alone, besides the store
not_facade ==
    <<scan_vars, auth_vars, audit_vars, refs_vars, cur_call, copy_vars, life_vars,
      key_vars, latch_vars,
      paged_vars,
      inst_vars,
      deleg_vars,
      index_vars,
      shared_vars,
      writer_vars,
      pagegen_vars>>

\* what the latch operations leave alone: the grants and every other part
not_latch ==
    <<store_vars, scan_vars, auth_vars, audit_vars, refs_vars, cur_call, copy_vars,
      life_vars, key_vars, fa_out,
      paged_vars,
      inst_vars,
      deleg_vars,
      index_vars,
      shared_vars,
      writer_vars,
      pagegen_vars>>

\* what calls of a compute over a storage of some kind leave alone, besides the store
not_paged ==
    <<scan_vars, auth_vars, audit_vars, refs_vars, cur_call, copy_vars, life_vars,
      key_vars, fa_out, latch_vars,
      inst_vars,
      deleg_vars,
      index_vars,
      shared_vars,
      writer_vars,
      pagegen_vars>>

\* what reads through the storage instances leave alone, besides the store
not_inst ==
    <<scan_vars, auth_vars, audit_vars, refs_vars, cur_call, copy_vars, life_vars,
      key_vars, fa_out, latch_vars, paged_vars,
      deleg_vars,
      index_vars,
      shared_vars,
      writer_vars,
      pagegen_vars>>

\* what calls of MultiprocessCompute leave alone, besides the store
not_deleg ==
    <<scan_vars, auth_vars, audit_vars, refs_vars, cur_call, copy_vars, life_vars,
      key_vars, fa_out, latch_vars, paged_vars, inst_vars,
      index_vars,
      shared_vars,
      writer_vars,
      pagegen_vars>>

\* what enact calls made on the storage directly leave alone, besides the store
not_index ==
    <<scan_vars, auth_vars, audit_vars, refs_vars, cur_call, copy_vars, life_vars,
      key_vars, fa_out, latch_vars, paged_vars, inst_vars, deleg_vars,
      shared_vars,
      writer_vars,
      pagegen_vars>>

\* what a call through the app leaves alone besides the store, the app and
\* the record of the call
not_shared ==
    <<scan_vars, auth_vars, audit_vars, refs_vars, cur_call, copy_vars, key_vars, fa_out,
      latch_vars, paged_vars, inst_vars, deleg_vars, index_vars,
      writer_vars,
      pagegen_vars>>

not_writer ==
    <<scan_vars, auth_vars, audit_vars, refs_vars, cur_call, copy_vars, life_vars,
      key_vars, fa_out, latch_vars, paged_vars, inst_vars, deleg_vars, index_vars, shared_vars,
      pagegen_vars>>

not_store == <<scan_vars, auth_vars, ext_vars>>

not_pagegen ==
    <<scan_vars, auth_vars, audit_vars, refs_vars, cur_call, copy_vars, life_vars,
      key_vars, fa_out, latch_vars, paged_vars, inst_vars, deleg_vars, index_vars, shared_vars,
      writer_vars>>

\* what a latch call through a storage instance leaves alone besides the
\* store, the latches and the instances
not_latch_inst ==
    <<scan_vars, auth_vars, audit_vars, refs_vars, cur_call, copy_vars, life_vars,
      key_vars, fa_out, paged_vars, deleg_vars, index_vars, shared_vars, writer_vars,
      pagegen_vars>>

vars == <<store_vars, scan_vars, auth_vars, ext_vars>>

\* ---------------------------------------------------------- InProcessStorage
\* the storage medium after __init__ and start()
StorageInit ==
    /\ grant_lut = <<>>
    /\ grant_effect_filter = [e \in Effects |-> <<>>]
    /\ grant_action_filter = [k \in ActionKeys |-> <<>>]
    /\ grant_both_filter = [e \in Effects |-> [k \in ActionKeys |-> <<>>]]
    /\ uuid_ctr = 0

\* the primary table and the three indexes
Tables ==
    [lut |-> grant_lut, effect |-> grant_effect_filter, action |-> grant_action_filter,
     both |-> grant_both_filter]

\* the list that the loops of enact and repeal run over: the actions list of
\* the grant as it was given, or [None] for an empty one
IndexKeys(grant) == IF Len(grant.actions) = 0 THEN <<None>> ELSE grant.actions

\* the loop of enact over the actions from position i on: each entry of the
\* list appends to its bucket of the action index and of the (effect, action)
\* index; the lookup of a bucket that start() did not create raises KeyError
\* and ends the call
RECURSIVE enact_loop(_, _, _, _)
enact_loop(tables, grant, actions, i) ==
    IF i > Len(actions) THEN [tables |-> tables, raises |-> None]
    ELSE IF actions[i] \notin DOMAIN tables.action
    THEN [tables |-> tables, raises |-> "KeyError"]
    ELSE enact_loop([tables EXCEPT !.action[actions[i]] = Append(@, grant),
                                   !.both[grant.effect][actions[i]] = Append(@, grant)],
                    grant, actions, i + 1)

\* the statements of enact in order: the primary table, the effect index (the
\* lookup of an effect that start() made no list for raises KeyError), then
\* the loop; the tables they leave and what they raise
enact_statements(tables, grant) ==
    IF grant.effect \notin DOMAIN tables.effect
    THEN [tables |-> [tables EXCEPT !.lut = Append(@, grant)], raises |-> "KeyError"]
    ELSE enact_loop([tables EXCEPT !.lut = Append(@, grant),
                                   !.effect[grant.effect] = Append(@, grant)],
                    grant, IndexKeys(grant), 1)

\* the grant that enact makes of new_grant: uuid4() is the next number
Enacted(new_grant) == [grant_uuid |-> uuid_ctr + 1] @@ new_grant

\* enact(new_grant): the tables are left as its statements leave them, also
\* when the loop raises
enact(new_grant) ==
    LET out == enact_statements(Tables, Enacted(new_grant))
    IN  /\ uuid_ctr' = uuid_ctr + 1
        /\ grant_lut' = out.tables.lut
        /\ grant_effect_filter' = out.tables.effect
        /\ grant_action_filter' = out.tables.action
        /\ grant_both_filter' = out.tables.both

InLut(grant_uuid) == \E i \in 1..Len(grant_lut) : grant_lut[i].grant_uuid = grant_uuid

\* the loop of repeal over the actions from position i on: each entry of the
\* list rebuilds its bucket of the action index and of the (effect, action)
\* index without the grant; the lookup of a bucket that start() did not create
\* raises KeyError and ends the call
RECURSIVE repeal_loop(_, _, _, _)
repeal_loop(tables, grant, actions, i) ==
    IF i > Len(actions) THEN [tables |-> tables, raises |-> None]
    ELSE IF actions[i] \notin DOMAIN tables.action
    THEN [tables |-> tables, raises |-> "KeyError"]
    ELSE repeal_loop(
             [tables EXCEPT
                 !.action[actions[i]] = WithoutUuid(@, grant.grant_uuid),
                 !.both[grant.effect][actions[i]] = WithoutUuid(@, grant.grant_uuid)],
             grant, actions, i + 1)

\* the statements of repeal for a key of the primary table, in order: the pop,
\* the effect index, then the loop; the tables they leave and what they raise
repeal_statements(tables, grant_uuid) ==
    LET grant == CHOOSE g \in Range(tables.lut) : g.grant_uuid = grant_uuid
    IN  repeal_loop([tables EXCEPT !.lut = WithoutUuid(@, grant_uuid),
                                   !.effect[grant.effect] = WithoutUuid(@, grant_uuid)],
                    grant, IndexKeys(grant), 1)

\* repeal with the removal from the (effect, action) index left out
repeal_BothKept(grant_uuid) ==
    /\ InLut(grant_uuid)
    /\ LET out == repeal_statements(Tables, grant_uuid)
       IN  /\ grant_lut' = out.tables.lut
           /\ grant_effect_filter' = out.tables.effect
           /\ grant_action_filter' = out.tables.action
    /\ UNCHANGED <<grant_both_filter, uuid_ctr>>

\* repeal(grant_uuid) for a key of the primary table: the tables are left as
\* its statements leave them, also when the loop raises
repeal(grant_uuid) ==
    /\ InLut(grant_uuid)
    /\ LET out == repeal_statements(Tables, grant_uuid)
       IN  /\ grant_lut' = out.tables.lut
           /\ grant_effect_filter' = out.tables.effect
           /\ grant_action_filter' = out.tables.action
           /\ grant_both_filter' = out.tables.both
    /\ UNCHANGED uuid_ctr

\* FilteredGrants without the all-actions bucket
FilteredGrants_NoWildcard(effect, action) ==
    IF effect # None /\ action # None THEN grant_both_filter[effect][action]
    ELSE IF effect # None THEN grant_effect_filter[effect]
    ELSE IF action # None THEN grant_action_filter[action]
    ELSE grant_lut

\* the list a filtered read pages over
FilteredGrants(effect, action) ==
    IF effect # None /\ action # None
    THEN grant_both_filter[effect][action] \o grant_both_filter[effect][None]
    ELSE IF effect # None THEN grant_effect_filter[effect]
    ELSE IF action # None
    THEN grant_action_filter[action] \o grant_action_filter[None]
    ELSE grant_lut

\* start_index of a page: 0 for the first page, int(page_ref) otherwise
StartIndex(page_ref) ==
    IF page_ref # NoPageRef
    THEN IF int(page_ref).raises THEN 0 ELSE int(page_ref).value
    ELSE 0

\* next_page_ref of a page that ends at end_index of a list of length total
NextPageRef(end_index, total) ==
    IF end_index < total THEN str(end_index) ELSE NoPageRef

get_grants_page(effect, action, page_ref, grants_page_size) ==
    LET grants == FilteredGrants(effect, action)
        start_index == StartIndex(page_ref)
        end_index == start_index + grants_page_size
    IN  [grants |-> Slice(grants, start_index, end_index),
         next_page_ref |-> NextPageRef(end_index, Len(grants))]

\* [str(i) for i in range(0, total_grants, grants_page_size)]
PageRefs(total_grants, grants_page_size) ==
    [j \in 1..((total_grants + grants_page_size - 1) \div grants_page_size) |->
        str((j - 1) * grants_page_size)]

get_grant_page_refs_page(effect, action, page_ref, grants_page_size, refs_page_size) ==
    LET grants == FilteredGrants(effect, action)
        page_refs == PageRefs(Len(grants), grants_page_size)
        start_index == StartIndex(page_ref)
        end_index == start_index + refs_page_size
    IN  [page_refs |-> Slice(page_refs, start_index, end_index),
         next_page_ref |-> NextPageRef(end_index, Len(page_refs))]

\* ------------------------------------------------ inputs of the store model
\* what the kernel needs of a grant besides effect and actions
PlainBody == [query |-> "true", query_validation |-> "error", equality |-> TRUE,
              context_schema |-> "object", context_validation |-> "none"]

\* grants enacted when the store and its pagination are examined: the actions
\* list is empty, names one action, two, or one action twice
StoreGrants ==
    {[effect |-> e, actions |-> a] @@ PlainBody :
        e \in Effects,
        a \in {<<>>, <<"Balloon:Read">>, <<"Balloon:Read", "Balloon:Inflate">>,
              <<"Balloon:Read", "Balloon:Read">>}}

\* no paging call with a caller-chosen page_ref is recorded
NoCursorCall == [op |-> None]

\* the store is written only while no scan is under way
Quiet ==
    /\ sc_pc = "idle" /\ az_pc = "idle" /\ au_pc = "idle" /\ cur_call = NoCursorCall

Enact ==
    /\ Quiet
    /\ uuid_ctr < MaxGrants
    /\ \E g \in StoreGrants : enact(g)
    /\ UNCHANGED <<scan_vars, auth_vars, ext_vars>>

Repeal ==
    /\ Quiet
    /\ \E u \in 1..MaxGrants : repeal(u)
    /\ UNCHANGED <<scan_vars, auth_vars, ext_vars>>

\* ---------------------------------------- a client paging get_grants_page
NoArgs == [effect |-> None, action |-> None, grants_page_size |-> 0]

ScanInit ==
    /\ sc_pc = "idle"
    /\ sc_args = NoArgs
    /\ sc_page_ref = NoPageRef
    /\ sc_grants = <<>>
    /\ sc_calls = 0
    /\ sc_pass = 0
    /\ sc_first = <<>>

\* the client picks its filters and page size; its first call passes page_ref=None
ScanBegin ==
    /\ Quiet
    /\ \E e \in Effects \cup {None}, a \in ActionKeys, n \in PageSizes :
         sc_args' = [effect |-> e, action |-> a, grants_page_size |-> n]
    /\ sc_pc' = "scan"
    /\ sc_page_ref' = NoPageRef
    /\ sc_grants' = <<>>
    /\ sc_calls' = 0
    /\ sc_pass' = 1
    /\ sc_first' = <<>>
    /\ UNCHANGED <<store_vars, auth_vars, ext_vars>>

\* one get_grants_page call; the client follows next_page_ref until it is None
ScanPage ==
    /\ sc_pc = "scan"
    /\ LET page == get_grants_page(sc_args.effect, sc_args.action, sc_page_ref,
                                   sc_args.grants_page_size)
       IN  /\ sc_grants' = sc_grants \o page.grants
           /\ sc_page_ref' = page.next_page_ref
           /\ sc_pc' = IF page.next_page_ref = NoPageRef THEN "done" ELSE "scan"
    /\ sc_calls' = sc_calls + 1
    /\ UNCHANGED <<store_vars, auth_vars, sc_args, sc_pass, sc_first, ext_vars>>

\* the client iterates a second time under the same filters, with any page size
ScanAgain ==
    /\ sc_pc = "done"
    /\ rf_pc = "idle"
    /\ sc_pass = 1
    /\ \E n \in PageSizes : sc_args' = [sc_args EXCEPT !.grants_page_size = n]
    /\ sc_pc' = "scan"
    /\ sc_page_ref' = NoPageRef
    /\ sc_first' = sc_grants
    /\ sc_grants' = <<>>
    /\ sc_calls' = 0
    /\ sc_pass' = 2
    /\ UNCHANGED <<store_vars, auth_vars, ext_vars>>

\* the client drops the result
ScanEnd ==
    /\ sc_pc = "done"
    /\ rf_pc = "idle"
    /\ sc_pc' = "idle"
    /\ sc_args' = NoArgs
    /\ sc_page_ref' = NoPageRef
    /\ sc_grants' = <<>>
    /\ sc_calls' = 0
    /\ sc_pass' = 0
    /\ sc_first' = <<>>
    /\ UNCHANGED <<store_vars, auth_vars, ext_vars>>

\* ------------------------- a client paging get_grant_page_refs_page
RefsInit ==
    /\ rf_pc = "idle"
    /\ rf_refs_page_size = 0
    /\ rf_page_ref = NoPageRef
    /\ rf_log = <<>>

\* the client that has paged through the grants pages them again by page
\* references, under the same filters and grants_page_size
RefsBegin ==
    /\ sc_pc = "done"
    /\ sc_pass = 1
    /\ rf_pc = "idle"
    /\ \E m \in RefsPageSizes : rf_refs_page_size' = m
    /\ rf_pc' = "refs"
    /\ rf_page_ref' = NoPageRef
    /\ rf_log' = <<>>
    /\ UNCHANGED <<store_vars, not_refs>>

\* one get_grant_page_refs_page call, and one get_grants_page call for each of
\* the returned refs
RefsPage ==
    /\ rf_pc = "refs"
    /\ LET refs == get_grant_page_refs_page(sc_args.effect, sc_args.action, rf_page_ref,
                       sc_args.grants_page_size, rf_refs_page_size)
           pages == [i \in 1..Len(refs.page_refs) |->
                       get_grants_page(sc_args.effect, sc_args.action, refs.page_refs[i],
                                       sc_args.grants_page_size)]
       IN  /\ rf_log' = Append(rf_log, [page_ref |-> rf_page_ref, refs |-> refs,
                                        pages |-> pages])
           /\ rf_page_ref' = refs.next_page_ref
           /\ rf_pc' = IF refs.next_page_ref = NoPageRef THEN "done" ELSE "refs"
    /\ UNCHANGED <<store_vars, not_refs, rf_refs_page_size>>

\* the client drops the result
RefsEnd ==
    /\ rf_pc = "done"
    /\ rf_pc' = "idle"
    /\ rf_refs_page_size' = 0
    /\ rf_page_ref' = NoPageRef
    /\ rf_log' = <<>>
    /\ UNCHANGED <<store_vars, not_refs>>

\* ------------------------- paging calls with a page_ref chosen by the caller
\* page references a caller may pass: texts that are no number, positions
\* inside and outside of every list the store can hold, and other texts that
\* int() takes: signed, padded with whitespace, with an underscore, in digits
\* that are not ASCII
CursorTexts ==
    {<<"x">>, <<>>, <<"-">>, <<"1", "_">>, <<"-", " ", "1">>}
    \cup {str(k) : k \in (0 - MaxGrants)..(MaxGrants + 1)}
    \cup {<<"+", "1">>, <<" ", "1">>, <<"1", " ">>, <<"\t", "2", "\n">>, <<"1", "_", "0">>,
          <<"0", "_", "1">>, <<"U+0661">>, <<"-", "U+0662">>, <<"\f", "1">>,
          <<"1", "U+00A0">>, <<"U+2003", "1">>, <<"U+FF11">>, <<"U+0967">>, <<"U+001C", "1">>}

CursorInit == cur_call = NoCursorCall

\* a paging call and what it gives back: the page it returns, or the exception it
\* raises (neither operation has a raise statement and the ValueError of int() is
\* caught)
CursorCall ==
    /\ Quiet
    /\ \E e \in Effects \cup {None}, a \in ActionKeys, r \in CursorTexts, n \in PageSizes :
         \/ cur_call' = [op |-> "get_grants_page", effect |-> e, action |-> a,
                         page_ref |-> r, grants_page_size |-> n, refs_page_size |-> 0,
                         raises |-> None,
                         page |-> get_grants_page(e, a, r, n)]
         \/ \E m \in RefsPageSizes :
              cur_call' = [op |-> "get_grant_page_refs_page", effect |-> e, action |-> a,
                           page_ref |-> r, grants_page_size |-> n, refs_page_size |-> m,
                           raises |-> None,
                           page |-> get_grant_page_refs_page(e, a, r, n, m)]
    /\ UNCHANGED <<store_vars, not_cursor>>

\* the caller drops the outcome
CursorEnd ==
    /\ cur_call # NoCursorCall
    /\ cur_call' = NoCursorCall
    /\ UNCHANGED <<store_vars, not_cursor>>

\* --------------------- the grant dicts of the store and those of its caller
\* a copy that is a new dict whose nested values are those of the original
deepcopy_Shallow(obj, sub, fresh) == [obj |-> fresh, sub |-> sub]

\* copy.deepcopy(obj): a new dict, its nested values new objects as well; given
\* the object copied, the object holding its nested values and the number of
\* the next new object, the copy's own number and the number of the object
\* that holds the copy's nested values
deepcopy(obj, sub, fresh) == [obj |-> fresh, sub |-> fresh]

\* the number of a dict that was not created
Unused ==
    [value |-> [grant_uuid |-> 0, effect |-> None, actions |-> <<>>] @@ PlainBody,
     sub |-> 0, store_uuid |-> 0, held |-> FALSE, origin |-> None]

CopyInit ==
    /\ cp_heap = <<>>
    /\ cp_enacted = <<>>
    /\ cp_read = <<>>

\* grants enacted when copies are examined: one filed under None, one under an
\* action
CopyGrants ==
    {[effect |-> "allow", actions |-> <<>>] @@ PlainBody,
     [effect |-> "deny", actions |-> <<"Balloon:Read">>] @@ PlainBody}

\* the object the store keeps under a uuid
StoreObj(grant_uuid) == CHOOSE o \in 1..Len(cp_heap) : cp_heap[o].store_uuid = grant_uuid

\* enact(new_grant) with the dicts involved: the caller's new_grant, the store's
\* grant = copy.deepcopy(new_grant) that gets the uuid and is put into the table
\* and the indexes, and the returned copy.deepcopy(grant)
CopyEnact ==
    /\ Quiet
    /\ uuid_ctr < MaxGrants
    /\ Len(cp_heap) + 3 <= MaxObjs
    /\ \E g \in CopyGrants :
         LET n == Len(cp_heap)
             arg == n + 1
             grant == deepcopy(arg, arg, n + 2)
             ret == deepcopy(grant.obj, grant.sub, n + 3)
             stored == [grant_uuid |-> uuid_ctr + 1] @@ g
             new == [o \in (n + 1)..(n + 3) |->
                       IF o = grant.obj
                       THEN [value |-> stored, sub |-> grant.sub, store_uuid |-> uuid_ctr + 1,
                             held |-> o \in {arg, ret.obj},
                             origin |-> IF o = arg THEN "new_grant" ELSE "grant"]
                       ELSE IF o = arg
                       THEN [value |-> g, sub |-> arg, store_uuid |-> 0, held |-> TRUE,
                             origin |-> "new_grant"]
                       ELSE IF o = ret.obj
                       THEN [value |-> stored, sub |-> ret.sub, store_uuid |-> 0,
                             held |-> TRUE, origin |-> "enact"]
                       ELSE Unused]
         IN  /\ enact(g)
             /\ cp_heap' = cp_heap \o [i \in 1..3 |-> new[n + i]]
             /\ cp_enacted' = Append(cp_enacted, stored)
    /\ UNCHANGED <<cp_read, not_copy>>

\* the dicts a read hands out for the store's objects of the given grants
Copies(grants, origin) ==
    LET n == Len(cp_heap)
    IN  [i \in 1..Len(grants) |->
           LET src == StoreObj(grants[i].grant_uuid)
               cpy == deepcopy(src, cp_heap[src].sub, n + i)
           IN  IF cpy.obj = src THEN Unused
               ELSE [value |-> grants[i], sub |-> cpy.sub, store_uuid |-> 0,
                     held |-> TRUE, origin |-> origin]]

\* the store's objects that a read hands out themselves
Handed(grants) ==
    {o \in 1..Len(cp_heap) :
        \E i \in 1..Len(grants) :
            /\ cp_heap[o].store_uuid = grants[i].grant_uuid
            /\ deepcopy(o, cp_heap[o].sub, Len(cp_heap) + i).obj = o}

HandOut(grants, origin) ==
    [o \in 1..Len(cp_heap) |->
        IF o \in Handed(grants) THEN [cp_heap[o] EXCEPT !.held = TRUE] ELSE cp_heap[o]]
    \o Copies(grants, origin)

\* get_grant(grant_uuid): copy.deepcopy of the table's grant
CopyGetGrant ==
    /\ Quiet
    /\ Len(cp_heap) + 1 <= MaxObjs
    /\ \E u \in 1..MaxGrants :
         /\ InLut(u)
         /\ LET grant == CHOOSE g \in Range(grant_lut) : g.grant_uuid = u
            IN  /\ cp_heap' = HandOut(<<grant>>, "get_grant")
                /\ cp_read' = <<grant>>
    /\ UNCHANGED <<store_vars, cp_enacted, not_copy>>

\* get_grants_page: copy.deepcopy of the grants of the page
CopyGetPage ==
    /\ Quiet
    /\ \E e \in Effects \cup {None}, a \in ActionKeys, n \in PageSizes :
         LET page == get_grants_page(e, a, NoPageRef, n)
         IN  /\ page.grants # <<>>
             /\ Len(cp_heap) + Len(page.grants) <= MaxObjs
             /\ cp_heap' = HandOut(page.grants, "get_grants_page")
             /\ cp_read' = page.grants
    /\ UNCHANGED <<store_vars, cp_enacted, not_copy>>

\* the lists of the store hold references to the store's objects, so after the
\* heap changed to heap2 every stored grant reads as the value of its object
Reflect(seq, heap2) ==
    [i \in 1..Len(seq) |->
        LET objs == {o \in 1..Len(heap2) : heap2[o].store_uuid = seq[i].grant_uuid}
        IN  IF objs = {} THEN seq[i] ELSE heap2[CHOOSE o \in objs : TRUE].value]

StoreReflects(heap2) ==
    IF \A o \in 1..Len(heap2) : heap2[o].store_uuid # 0 => heap2[o] = cp_heap[o]
    THEN UNCHANGED store_vars
    ELSE
    /\ grant_lut' = Reflect(grant_lut, heap2)
    /\ grant_effect_filter' = [e \in Effects |-> Reflect(grant_effect_filter[e], heap2)]
    /\ grant_action_filter' = [k \in ActionKeys |-> Reflect(grant_action_filter[k], heap2)]
    /\ grant_both_filter' =
         [e \in Effects |-> [k \in ActionKeys |-> Reflect(grant_both_filter[e][k], heap2)]]
    /\ UNCHANGED uuid_ctr

\* the caller assigns to a key of a dict it holds: d['query'] = ...
CopyMutate ==
    /\ Quiet
    /\ \E o \in 1..Len(cp_heap) :
         /\ cp_heap[o].held
         /\ cp_heap[o].value.query # "mutated"
         /\ LET heap2 == [cp_heap EXCEPT ![o].value.query = "mutated"]
            IN  cp_heap' = heap2 /\ StoreReflects(heap2)
    /\ cp_read' = <<>>
    /\ UNCHANGED <<cp_enacted, not_copy>>

\* the caller changes a nested value of a dict it holds:
\* d['context_schema']['type'] = ...; every dict that shares the nested object
\* shows the change
CopyMutateNested ==
    /\ Quiet
    /\ \E o \in 1..Len(cp_heap) :
         /\ cp_heap[o].held
         /\ cp_heap[o].value.context_schema # "mutated"
         /\ LET heap2 == [p \in 1..Len(cp_heap) |->
                            IF cp_heap[p].sub = cp_heap[o].sub /\ cp_heap[p] # Unused
                            THEN [cp_heap[p] EXCEPT !.value.context_schema = "mutated"]
                            ELSE cp_heap[p]]
            IN  cp_heap' = heap2 /\ StoreReflects(heap2)
    /\ cp_read' = <<>>
    /\ UNCHANGED <<cp_enacted, not_copy>>

\* ------------------------------------------------- AuthzeeAsync: lifecycle
Localities == {"PROCESS", "SYSTEM", "NETWORK"}

\* module_locality.locality_compatibility: compute locality -> storage localities
locality_compatibility ==
    [c \in Localities |->
        IF c = "PROCESS" THEN {"PROCESS", "SYSTEM", "NETWORK"}
        ELSE IF c = "SYSTEM" THEN {"SYSTEM", "NETWORK"}
        ELSE {"NETWORK"}]

\* the classes that the module authzee.exceptions defines
ExceptionNames ==
    {"AuthzeeError", "SpecificationError", "ContextError", "DefinitionError",
     "GrantError", "JMESPathError", "RequestError", "SDKError",
     "LocalityIncompatibilityError", "GrantNotFoundError", "LatchNotFoundError",
     "StartError", "NotImplementedError", "ParallelPaginationNotSupported",
     "PageReferenceError"}

\* what `raise exceptions.<name>(...)` raises: the class of that name, or the
\* AttributeError of the lookup when the module has no such attribute
RaiseOf(name) == IF name \in ExceptionNames THEN name ELSE "AttributeError"

\* the parameters of SpecificationError.__init__ besides self; none has a default
SpecificationErrorParams ==
    {"message", "context", "definition", "grant", "jmespath", "request"}

\* raise cls(**kwargs) for a subclass cls of SpecificationError: the exception
\* the caller gets; Python raises TypeError when the keywords are not the
\* parameters of __init__
RaiseSpecificationError(cls, kwargs) ==
    IF kwargs = SpecificationErrorParams THEN cls ELSE "TypeError"

NoOutcome == [op |-> None]

\* the compute classes an app is built with: InProcessCompute and
\* MultiprocessCompute of the repository, and a compute module of the caller's
\* that defines __init__ and start itself
ComputeTypes == {"InProcessCompute", "MultiprocessCompute", "CustomCompute"}

\* the keys of the compute_kwargs an app is built with
ComputeKwargs ==
    {{}, {"storage_type", "storage_kwargs"}, {"max_workers", "compute_type", "compute_kwargs"}}

\* the parameters of compute_type.__init__ besides self, none with a default:
\* InProcessCompute inherits ComputeModule.__init__, MultiprocessCompute
\* defines its own
ComputeInitParams(compute_type) ==
    IF compute_type = "InProcessCompute" THEN {"storage_type", "storage_kwargs"}
    ELSE IF compute_type = "MultiprocessCompute"
    THEN {"max_workers", "compute_type", "compute_kwargs"}
    ELSE {}

\* self.compute_type(**self.compute_kwargs): what it raises
ComputeInitRaises(compute_type, compute_kwargs) ==
    IF compute_kwargs = ComputeInitParams(compute_type) THEN None ELSE "TypeError"

\* the coroutines that the class ComputeModule defines
ComputeModuleMethods ==
    {"initialize", "shutdown", "setup", "teardown", "authorize", "authorize_many",
     "get_matching_grants_page"}

\* await self._compute.start(...): what it raises; start of InProcessCompute
\* and of MultiprocessCompute begins with `await super().start(...)`
ComputeStartRaises(compute_type) ==
    IF compute_type \in {"InProcessCompute", "MultiprocessCompute"}
          /\ "start" \notin ComputeModuleMethods
    THEN "AttributeError"
    ELSE None

\* the locality that the start of a compute class assigns
ComputeLocality(compute_type) ==
    IF compute_type = "InProcessCompute" THEN {"PROCESS"}
    ELSE IF compute_type = "MultiprocessCompute" THEN {"SYSTEM"}
    ELSE Localities

\* the arguments of AuthzeeAsync(...) that start() uses: the compute class with
\* its kwargs and the locality its start assigns, the locality of the storage
\* class, and whether validate_definitions accepts the definitions
Configs ==
    {cfg \in [compute_type : ComputeTypes, compute_kwargs : ComputeKwargs,
              compute : Localities, storage : Localities, definitions_valid : BOOLEAN] :
        /\ cfg.compute \in ComputeLocality(cfg.compute_type)
        /\ cfg.compute_type = "CustomCompute" => cfg.compute_kwargs = {}}

NoConfig == [compute_type |-> None]

\* the app after __init__: no _storage and no _compute yet, and no call of
\* it awaiting an executor
LifeInit ==
    /\ eng = [state |-> "Created", has_storage |-> FALSE, compute |-> None,
              compute_started |-> FALSE, bound |-> FALSE, config |-> NoConfig,
              calls |-> <<>>]
    /\ sh_lut = <<>>
    /\ life_out = NoOutcome

Outcome(op, raises, returned, changed) ==
    [op |-> op, state |-> eng.state, raises |-> raises, returned |-> returned,
     changed |-> changed]

\* start() of the app built with cfg: the definitions are validated; then the
\* storage is created and started, the compute is created and started, and the
\* localities are compared; an exception leaves what was assigned before it
start ==
    /\ \E cfg \in Configs :
         /\ eng.config \in {NoConfig, cfg}
         /\ LET with_storage == [eng EXCEPT !.has_storage = TRUE, !.bound = TRUE,
                                            !.config = cfg]
                with_compute == [with_storage EXCEPT !.compute = cfg.compute_type]
            IN  IF ~cfg.definitions_valid
                THEN /\ life_out' =
                          Outcome("start",
                                  RaiseSpecificationError("DefinitionError",
                                                          {"message", "response"}),
                                  FALSE, FALSE) @@ cfg
                     /\ eng' = [eng EXCEPT !.config = cfg]
                ELSE IF ComputeInitRaises(cfg.compute_type, cfg.compute_kwargs) # None
                THEN /\ life_out' =
                          Outcome("start",
                                  ComputeInitRaises(cfg.compute_type, cfg.compute_kwargs),
                                  FALSE, FALSE) @@ cfg
                     /\ eng' = with_storage
                ELSE IF ComputeStartRaises(cfg.compute_type) # None
                THEN /\ life_out' =
                          Outcome("start", ComputeStartRaises(cfg.compute_type),
                                  FALSE, FALSE) @@ cfg
                     /\ eng' = with_compute
                ELSE IF cfg.storage \notin locality_compatibility[cfg.compute]
                THEN /\ life_out' =
                          Outcome("start", RaiseOf("LocalityIncompatibility"), FALSE, FALSE)
                              @@ cfg
                     /\ eng' = [with_compute EXCEPT !.compute_started = TRUE]
                ELSE /\ life_out' = Outcome("start", None, FALSE, FALSE) @@ cfg
                     /\ eng' = [with_compute EXCEPT !.compute_started = TRUE,
                                                    !.state = "Started"]
    /\ sh_lut' = IF life_out'.definitions_valid THEN <<>> ELSE sh_lut
    /\ sh_latch_lut' = IF life_out'.definitions_valid THEN <<>> ELSE sh_latch_lut
    /\ UNCHANGED <<store_vars, not_life>>

\* shutdown(): InProcessStorage.shutdown binds the tables of the app's storage
\* instance to new empty dicts, then the compute's shutdown is called, which is
\* an AttributeError when the app has no _compute
shutdown ==
    /\ IF ~eng.has_storage
       THEN /\ eng' = eng
            /\ sh_lut' = sh_lut
            /\ sh_latch_lut' = sh_latch_lut
            /\ life_out' = Outcome("shutdown", "AttributeError", FALSE, FALSE)
       ELSE IF eng.compute = None
       THEN /\ eng' = [eng EXCEPT !.bound = FALSE]
            /\ sh_lut' = <<>>
            /\ sh_latch_lut' = <<>>
            /\ life_out' = Outcome("shutdown", "AttributeError", FALSE, FALSE)
       ELSE /\ eng' = [eng EXCEPT !.state = "Shutdown", !.bound = FALSE]
            /\ sh_lut' = <<>>
            /\ sh_latch_lut' = <<>>
            /\ life_out' = Outcome("shutdown", None, FALSE, FALSE)
    /\ UNCHANGED <<store_vars, not_life>>

\* a call that fails on self._storage of an app that start() gave no storage
Unstarted(op) ==
    /\ ~eng.has_storage
    /\ life_out' = Outcome(op, "AttributeError", FALSE, FALSE)
    /\ UNCHANGED <<store_vars, eng, sh_lut, sh_latch_lut, not_life>>

InShLut(u) == \E i \in 1..Len(sh_lut) : sh_lut[i].grant_uuid = u

\* app.enact(new_grant); on the rebound tables the grant is put into _grant_lut
\* and the lookup of its effect in the empty _grant_effect_filter fails
LifeEnact ==
    \/ Unstarted("enact")
    \/ /\ eng.has_storage
       /\ uuid_ctr < MaxGrants
       /\ \E g \in CopyGrants :
            IF eng.bound
            THEN /\ enact(g)
                 /\ life_out' = Outcome("enact", None, TRUE, TRUE)
                 /\ UNCHANGED sh_lut
            ELSE /\ sh_lut' = Append(sh_lut, [grant_uuid |-> uuid_ctr + 1] @@ g)
                 /\ uuid_ctr' = uuid_ctr + 1
                 /\ life_out' = Outcome("enact", "KeyError", FALSE, FALSE)
                 /\ UNCHANGED <<grant_lut, grant_effect_filter, grant_action_filter,
                                grant_both_filter>>
       /\ UNCHANGED <<eng, sh_latch_lut, not_life>>

LifeRepeal ==
    \/ Unstarted("repeal")
    \/ /\ eng.has_storage
       /\ \E u \in 1..MaxGrants :
            IF eng.bound
            THEN IF InLut(u)
                 THEN /\ repeal(u)
                      /\ life_out' = Outcome("repeal", None, FALSE, TRUE)
                      /\ UNCHANGED sh_lut
                 ELSE /\ life_out' = Outcome("repeal", "GrantNotFoundError", FALSE, FALSE)
                      /\ UNCHANGED <<store_vars, sh_lut>>
            ELSE IF InShLut(u)
                 THEN /\ sh_lut' = WithoutUuid(sh_lut, u)
                      /\ life_out' = Outcome("repeal", "KeyError", FALSE, FALSE)
                      /\ UNCHANGED store_vars
                 ELSE /\ life_out' = Outcome("repeal", "GrantNotFoundError", FALSE, FALSE)
                      /\ UNCHANGED <<store_vars, sh_lut>>
       /\ UNCHANGED <<eng, sh_latch_lut, not_life>>

LifeGetGrant ==
    \/ Unstarted("get_grant")
    \/ /\ eng.has_storage
       /\ \E u \in 1..MaxGrants :
            life_out' =
                IF (eng.bound /\ InLut(u)) \/ (~eng.bound /\ InShLut(u))
                THEN Outcome("get_grant", None, TRUE, FALSE)
                ELSE Outcome("get_grant", "GrantNotFoundError", FALSE, FALSE)
       /\ UNCHANGED <<store_vars, eng, sh_lut, sh_latch_lut, not_life>>

\* a paging read of the app's storage instance: on the rebound tables the
\* unfiltered read pages the new _grant_lut and a filtered read fails on the
\* missing key of the empty index
PagingRead(op) ==
    \/ Unstarted(op)
    \/ /\ eng.has_storage
       /\ \E e \in Effects \cup {None}, a \in ActionKeys :
            life_out' =
                IF eng.bound \/ (e = None /\ a = None)
                THEN Outcome(op, None, TRUE, FALSE)
                ELSE Outcome(op, "KeyError", FALSE, FALSE)
       /\ UNCHANGED <<store_vars, eng, sh_lut, sh_latch_lut, not_life>>

LifeGetGrantsPage == PagingRead("get_grants_page")

LifeGetGrantPageRefsPage == PagingRead("get_grant_page_refs_page")

\* what a call of authorize or audit_page on self._compute raises: the app has
\* no _compute; or the compute was created and its start raised, so that
\* InProcessCompute has no _storage and MultiprocessCompute no pool, its worker
\* function then running in this process, where authzee_compute is not defined
ComputeCallRaises ==
    IF eng.compute = None THEN "AttributeError"
    ELSE IF eng.compute_started THEN None
    ELSE IF eng.compute = "InProcessCompute" THEN "AttributeError"
    ELSE "NameError"

\* a call with a valid request that the app hands to its compute. The method
\* of MultiprocessCompute awaits run_in_executor(self._executor, ...): the call
\* is suspended there with the app's state as it found it, and other calls of
\* the app run before its outcome arrives. The methods of the other computes
\* reach no await that suspends them
ComputeCall(op) ==
    IF eng.compute = "MultiprocessCompute"
    THEN /\ Len(eng.calls) < MaxCalls
         /\ eng' = [eng EXCEPT !.calls = Append(@, [op |-> op, state |-> eng.state])]
         /\ UNCHANGED <<store_vars, sh_lut, sh_latch_lut, life_out, not_life>>
    ELSE /\ life_out' = Outcome(op, ComputeCallRaises, ComputeCallRaises = None, FALSE)
         /\ UNCHANGED <<store_vars, eng, sh_lut, sh_latch_lut, not_life>>

\* seq without its i-th element
RemoveAt(seq, i) == SubSeq(seq, 1, i - 1) \o SubSeq(seq, i + 1, Len(seq))

\* the executor has run _executor_authorize or _executor_audit_page for one of
\* the suspended calls, in any order, and the call resumes with the outcome
ExecutorDone ==
    \E i \in 1..Len(eng.calls) :
        /\ life_out' = [Outcome(eng.calls[i].op, ComputeCallRaises, ComputeCallRaises = None,
                                FALSE) EXCEPT !.state = eng.calls[i].state]
        /\ eng' = [eng EXCEPT !.calls = RemoveAt(@, i)]
        /\ UNCHANGED <<store_vars, sh_lut, sh_latch_lut, not_life>>

LifeAuditPage == ComputeCall("audit_page")

LifeAuthorize == ComputeCall("authorize")

\* ------------------------------------------- authzee.core: the grant kernel
\* request.context is a JSON object; a context_schema is kept as the JSON type
\* it demands
ContextValid(request, grant) == grant.context_schema = request.context

\* the external search(query, data): `true` evaluates to true, a query calling
\* an unknown function raises
search(query, request, grant) ==
    IF query = "true" THEN [raises |-> FALSE, value |-> TRUE]
    ELSE [raises |-> TRUE, value |-> FALSE]

NoErrors == [context |-> <<>>, definition |-> <<>>, grant |-> <<>>,
             jmespath |-> <<>>, request |-> <<>>]

ErrorEntry(grant, critical) == [grant_uuid |-> grant.grant_uuid, critical |-> critical]

NoMatch == [applicable |-> FALSE, critical |-> FALSE, errors |-> NoErrors]

\* one grant against one request
evaluate_one(request, grant) ==
    IF Len(grant.actions) # 0 /\ request.action \notin Range(grant.actions) THEN NoMatch
    ELSE IF ~ContextValid(request, grant) /\ grant.context_validation = "error"
    THEN [applicable |-> FALSE, critical |-> TRUE,
          errors |-> [NoErrors EXCEPT !.context = <<ErrorEntry(grant, TRUE)>>]]
    ELSE IF ~ContextValid(request, grant) /\ grant.context_validation = "grant"
    THEN [applicable |-> FALSE, critical |-> FALSE,
          errors |-> [NoErrors EXCEPT !.context = <<ErrorEntry(grant, FALSE)>>]]
    ELSE LET v == search(grant.query, request, grant)
         IN  IF v.raises /\ grant.query_validation = "error"
             THEN [applicable |-> FALSE, critical |-> TRUE,
                   errors |-> [NoErrors EXCEPT !.jmespath = <<ErrorEntry(grant, TRUE)>>]]
             ELSE IF v.raises
             THEN [applicable |-> FALSE, critical |-> FALSE,
                   errors |-> [NoErrors EXCEPT !.jmespath = <<ErrorEntry(grant, FALSE)>>]]
             ELSE [applicable |-> v.value = grant.equality, critical |-> FALSE,
                   errors |-> NoErrors]

NoGrant == [grant_uuid |-> 0]

AddErrors(errors, more) ==
    [errors EXCEPT !.context = @ \o more.context, !.jmespath = @ \o more.jmespath]

\* the grants of a list in order, until one decides: a critical error stops
\* with completed=false, an applicable deny denies, an applicable allow allows
RECURSIVE authorize_grants(_, _, _)
authorize_grants(request, grants, errors) ==
    IF grants = <<>>
    THEN [authorized |-> FALSE, completed |-> TRUE, grant |-> NoGrant, errors |-> errors]
    ELSE LET g == Head(grants)
             e == evaluate_one(request, g)
             errs == AddErrors(errors, e.errors)
         IN  IF e.critical
             THEN [authorized |-> FALSE, completed |-> FALSE, grant |-> NoGrant,
                   errors |-> errs]
             ELSE IF e.applicable
             THEN [authorized |-> g.effect = "allow", completed |-> TRUE, grant |-> g,
                   errors |-> errs]
             ELSE authorize_grants(request, Tail(grants), errs)

\* core.authorize(request, grants, search): the deny grants, then the allow grants
core_authorize(request, grants) ==
    authorize_grants(request,
        SelectSeq(grants, LAMBDA g : g.effect = "deny")
            \o SelectSeq(grants, LAMBDA g : g.effect = "allow"),
        NoErrors)

\* ---------------------------------------------------------- InProcessCompute
\* the pages of the given refs, concatenated in the order of the refs
RECURSIVE PagesOfRefs(_, _, _, _)
PagesOfRefs(effect, action, refs, grants_page_size) ==
    IF refs = <<>> THEN <<>>
    ELSE get_grants_page(effect, action, Head(refs), grants_page_size).grants
            \o PagesOfRefs(effect, action, Tail(refs), grants_page_size)

_get_page_or_pages(effect, action, page_ref, grants_page_size, parallel_paging, refs_page_size) ==
    IF parallel_paging
    THEN LET refs == get_grant_page_refs_page(effect, action, page_ref,
                                              grants_page_size, refs_page_size)
         IN  [grants |-> PagesOfRefs(effect, action, refs.page_refs, grants_page_size),
              next_page_ref |-> refs.next_page_ref]
    ELSE get_grants_page(effect, action, page_ref, grants_page_size)

\* DenyReturns that ends the call on a critical error only
DenyReturns_CriticalOnly(resp) == resp.completed = FALSE

\* DenyReturns with the completed test inverted
DenyReturns_Inverted(resp) == resp.completed = TRUE \/ resp.grant # NoGrant

\* the test that ends the call after a page of the deny scan
DenyReturns(resp) == resp.completed = FALSE \/ resp.grant # NoGrant

\* the test that ends the call after a page of the allow scan
AllowReturns(resp) == resp.completed = FALSE /\ resp.grant # NoGrant

\* authorize as a function of its arguments and the store: the allow loop from
\* page_ref on, and the deny loop from page_ref on followed by the allow loop
RECURSIVE allow_scan(_, _)
allow_scan(args, page_ref) ==
    LET page == _get_page_or_pages("allow", args.request.action, page_ref,
                    args.grants_page_size, args.parallel_paging, args.refs_page_size)
        resp == core_authorize(args.request, page.grants)
    IN  IF AllowReturns(resp) \/ page.next_page_ref = NoPageRef THEN resp
        ELSE allow_scan(args, page.next_page_ref)

RECURSIVE deny_scan(_, _)
deny_scan(args, page_ref) ==
    LET page == _get_page_or_pages("deny", args.request.action, page_ref,
                    args.grants_page_size, args.parallel_paging, args.refs_page_size)
        resp == core_authorize(args.request, page.grants)
    IN  IF DenyReturns(resp) THEN resp
        ELSE IF page.next_page_ref = NoPageRef THEN allow_scan(args, NoPageRef)
        ELSE deny_scan(args, page.next_page_ref)

authorize(args) == deny_scan(args, NoPageRef)

NoCall == [request |-> [action |-> None, context |-> None], grants_page_size |-> 0,
           parallel_paging |-> FALSE, refs_page_size |-> 0]

\* resp before the first page is evaluated (the local is not bound yet)
Unbound == [authorized |-> FALSE, completed |-> FALSE, grant |-> NoGrant,
            errors |-> NoErrors, unbound |-> TRUE]

AuthorizeInit ==
    /\ az_pc = "idle"
    /\ az_args = NoCall
    /\ az_page_ref = NoPageRef
    /\ az_resp = Unbound
    /\ az_log = <<>>

\* valid requests: a declared action, an object as context
Requests == [action : Actions, context : {"object"}]

\* authorize(request, grants_page_size, parallel_paging, refs_page_size) is called
\* and opens the deny scan
AuthorizeBegin ==
    /\ Quiet
    /\ \E r \in Requests, n \in PageSizes, p \in BOOLEAN, m \in RefsPageSizes :
         \* refs_page_size is read under parallel paging only
         /\ p = FALSE => m = 1
         /\ az_args' = [request |-> r, grants_page_size |-> n, parallel_paging |-> p,
                        refs_page_size |-> m]
    /\ az_pc' = "deny"
    /\ az_page_ref' = NoPageRef
    /\ az_resp' = Unbound
    /\ az_log' = <<>>
    /\ UNCHANGED <<store_vars, scan_vars, ext_vars>>

\* the slab _page_gen yields next for the given effect, and its evaluation
NextSlab(effect) ==
    _get_page_or_pages(effect, az_args.request.action, az_page_ref,
                       az_args.grants_page_size, az_args.parallel_paging,
                       az_args.refs_page_size)

LogEntry(effect, page, resp) ==
    [effect |-> effect, page_ref |-> az_page_ref, grants |-> page.grants, resp |-> resp]

\* one round of the deny loop: fetch a slab of deny grants, evaluate it, return
\* or go on to the next slab, and to the allow scan after the last
DenyPage ==
    /\ az_pc = "deny"
    /\ LET page == NextSlab("deny")
           resp == core_authorize(az_args.request, page.grants)
       IN  /\ az_resp' = resp
           /\ az_log' = Append(az_log, LogEntry("deny", page, resp))
           /\ IF DenyReturns(resp)
              THEN az_pc' = "done" /\ UNCHANGED az_page_ref
              ELSE IF page.next_page_ref = NoPageRef
              THEN az_pc' = "allow" /\ az_page_ref' = NoPageRef
              ELSE az_pc' = "deny" /\ az_page_ref' = page.next_page_ref
    /\ UNCHANGED <<store_vars, scan_vars, az_args, ext_vars>>

\* one round of the allow loop; after the last slab the call returns resp
AllowPage ==
    /\ az_pc = "allow"
    /\ LET page == NextSlab("allow")
           resp == core_authorize(az_args.request, page.grants)
       IN  /\ az_resp' = resp
           /\ az_log' = Append(az_log, LogEntry("allow", page, resp))
           /\ IF AllowReturns(resp)
              THEN az_pc' = "done" /\ UNCHANGED az_page_ref
              ELSE IF page.next_page_ref = NoPageRef
              THEN az_pc' = "done" /\ UNCHANGED az_page_ref
              ELSE az_pc' = "allow" /\ az_page_ref' = page.next_page_ref
    /\ UNCHANGED <<store_vars, scan_vars, az_args, ext_vars>>

\* the caller has taken the response
AuthorizeEnd ==
    /\ az_pc = "done"
    /\ az_pc' = "idle"
    /\ az_args' = NoCall
    /\ az_page_ref' = NoPageRef
    /\ az_resp' = Unbound
    /\ az_log' = <<>>
    /\ UNCHANGED <<store_vars, scan_vars, ext_vars>>

\* grants enacted when decisions are examined: either effect, applicable to
\* every action or to one (named once or twice), failing its query under the
\* "validate" and under the "error" policy
MatchingBody(actions) == [actions |-> actions] @@ PlainBody

PolicyBodies ==
    {MatchingBody(<<>>), MatchingBody(<<"Balloon:Inflate">>),
     MatchingBody(<<"Balloon:Inflate", "Balloon:Inflate">>),
     [MatchingBody(<<>>) EXCEPT !.equality = FALSE],
     [MatchingBody(<<>>) EXCEPT !.query = "nosuchfunc(request)", !.query_validation = "validate"],
     [MatchingBody(<<>>) EXCEPT !.query = "nosuchfunc(request)", !.query_validation = "error"]}

PolicyGrants == {[effect |-> e] @@ b : e \in Effects, b \in PolicyBodies}

EnactPolicy ==
    /\ Quiet
    /\ uuid_ctr < MaxGrants
    /\ \E g \in PolicyGrants : enact(g)
    /\ UNCHANGED <<scan_vars, auth_vars, ext_vars>>

\* -------------------------------------------- InProcessCompute.audit_page
\* core.audit(request, grants, search): the grants of a slab in order; the
\* applicable ones are collected, a critical error stops with completed=false
RECURSIVE audit_grants(_, _, _, _)
audit_grants(request, grants, matched, errors) ==
    IF grants = <<>>
    THEN [completed |-> TRUE, grants |-> matched, errors |-> errors]
    ELSE LET g == Head(grants)
             e == evaluate_one(request, g)
             errs == AddErrors(errors, e.errors)
         IN  IF e.critical
             THEN [completed |-> FALSE, grants |-> matched, errors |-> errs]
             ELSE audit_grants(request, Tail(grants),
                               IF e.applicable THEN Append(matched, g) ELSE matched,
                               errs)

core_audit(request, grants) == audit_grants(request, grants, <<>>, NoErrors)

\* audit_page reading the allow grants only
audit_page_AllowOnly(request, page_ref, grants_page_size, parallel_paging, refs_page_size) ==
    LET page == _get_page_or_pages("allow", request.action, page_ref, grants_page_size,
                                   parallel_paging, refs_page_size)
        resp == core_audit(request, page.grants)
    IN  [slab |-> page.grants,
         resp |-> resp @@ [next_page_ref |-> page.next_page_ref]]

\* one slab of grants of either effect for the request's action, audited
audit_page(request, page_ref, grants_page_size, parallel_paging, refs_page_size) ==
    LET page == _get_page_or_pages(None, request.action, page_ref, grants_page_size,
                                   parallel_paging, refs_page_size)
        resp == core_audit(request, page.grants)
    IN  [slab |-> page.grants,
         resp |-> resp @@ [next_page_ref |-> page.next_page_ref]]

AuditInit ==
    /\ au_pc = "idle"
    /\ au_args = NoCall
    /\ au_page_ref = NoPageRef
    /\ au_log = <<>>

\* a client starts an audit: its first audit_page call passes page_ref=None
AuditBegin ==
    /\ Quiet
    /\ \E r \in Requests, n \in PageSizes, p \in BOOLEAN, m \in RefsPageSizes :
         /\ p = FALSE => m = 1
         /\ au_args' = [request |-> r, grants_page_size |-> n, parallel_paging |-> p,
                        refs_page_size |-> m]
    /\ au_pc' = "audit"
    /\ au_page_ref' = NoPageRef
    /\ au_log' = <<>>
    /\ UNCHANGED <<store_vars, not_audit>>

\* one audit_page call; the client follows next_page_ref until it is None
AuditPage ==
    /\ au_pc = "audit"
    /\ LET out == audit_page(au_args.request, au_page_ref, au_args.grants_page_size,
                             au_args.parallel_paging, au_args.refs_page_size)
       IN  /\ au_log' = Append(au_log, out)
           /\ au_page_ref' = out.resp.next_page_ref
           /\ au_pc' = IF out.resp.next_page_ref = NoPageRef THEN "done" ELSE "audit"
    /\ UNCHANGED <<store_vars, not_audit, au_args>>

\* the client drops the result
AuditEnd ==
    /\ au_pc = "done"
    /\ au_pc' = "idle"
    /\ au_args' = NoCall
    /\ au_page_ref' = NoPageRef
    /\ au_log' = <<>>
    /\ UNCHANGED <<store_vars, not_audit>>

\* -------------------------------------------------------- SharedMemLatch
\* SharedMemLatch: one byte of shared memory; how often the block was created
\* and its flag
NoLatch == [created |-> 0, flag |-> FALSE]

\* SharedMemLatch(smm): a new block, its byte 0
SharedMemLatch(latch) == [latch EXCEPT !.created = @ + 1, !.flag = FALSE]

is_set(latch) == latch.flag

set(latch) == [latch EXCEPT !.flag = TRUE]

\* ------------------------------ inputs of the calls made on a compute
\* grants enacted when calls of a compute are examined: either effect,
\* matching every request or none
ComputeGrants ==
    {[effect |-> e] @@ b :
        e \in Effects, b \in {MatchingBody(<<>>), [MatchingBody(<<>>) EXCEPT !.equality = FALSE]}}

ComputeEnact ==
    /\ Quiet
    /\ uuid_ctr < MaxGrants
    /\ \E g \in ComputeGrants : enact(g)
    /\ UNCHANGED <<scan_vars, auth_vars, ext_vars>>

\* the requests of the calls: the grants above match an action as any other
ComputeRequests == {r \in Requests : r.action = "Balloon:Read"}

\* --------------------------- InProcessStorage: calls with a grant_uuid key
\* what a caller passes as grant_uuid: the UUID object that uuid4() made for
\* grant n, or the text str(uuid) that the grant carries
UUID(n) == [type |-> "UUID", n |-> n]

uuid_str(n) == [type |-> "str", n |-> n]

Keys == {UUID(n) : n \in 1..MaxGrants} \cup {uuid_str(n) : n \in 1..MaxGrants}

NoKey == [type |-> None, n |-> 0]

\* grant_uuid in self._grant_lut: the keys of the table are the UUID objects
\* (self._grant_lut[grant_uuid] = grant at enact), and a str equals no UUID
in_grant_lut(key) == key.type = "UUID" /\ InLut(key.n)

NoKeyCall == [op |-> None]

KeyCall(op, key, raises, returned) ==
    [op |-> op, key |-> key, raises |-> raises, returned |-> returned, before |-> Tables]

KeyInit ==
    /\ kc_call = NoKeyCall
    /\ kc_returned = {}
    /\ kc_repealed = {}

\* enact(new_grant) and the grant it returns
KeyEnact ==
    /\ Quiet
    /\ uuid_ctr < MaxGrants
    /\ \E g \in StoreGrants :
         LET grant == [grant_uuid |-> uuid_ctr + 1] @@ g
         IN  /\ enact(g)
             /\ kc_call' = KeyCall("enact", NoKey, None, <<grant>>)
             /\ kc_returned' = kc_returned \cup {grant}
    /\ UNCHANGED <<kc_repealed, not_key>>

\* repeal(grant_uuid): GrantNotFoundError for a key not in the table
KeyRepeal ==
    /\ Quiet
    /\ \E key \in Keys :
         IF in_grant_lut(key)
         THEN /\ repeal(key.n)
              /\ kc_call' = KeyCall("repeal", key, None, <<>>)
              /\ kc_repealed' = kc_repealed \cup {key.n}
         ELSE /\ kc_call' = KeyCall("repeal", key, "GrantNotFoundError", <<>>)
              /\ UNCHANGED <<store_vars, kc_repealed>>
    /\ UNCHANGED <<kc_returned, not_key>>

\* get_grant(grant_uuid): the stored grant, or GrantNotFoundError
get_grant(key) ==
    IF in_grant_lut(key)
    THEN [raises |-> None,
          returned |-> <<CHOOSE g \in Range(grant_lut) : g.grant_uuid = key.n>>]
    ELSE [raises |-> "GrantNotFoundError", returned |-> <<>>]

KeyGetGrant ==
    /\ Quiet
    /\ \E key \in Keys :
         kc_call' = KeyCall("get_grant", key, get_grant(key).raises, get_grant(key).returned)
    /\ UNCHANGED <<store_vars, kc_returned, kc_repealed, not_key>>

\* ------------------------------- AuthzeeAsync: validation of its inputs
\* the actions the resource definitions of the app declare, by resource type
DeclaredActions == [Balloon |-> Actions]

\* grants passed to enact on the app: valid ones, one that lists an action no
\* resource definition declares, one that violates grant_schema
FacadeGrants ==
    ComputeGrants \cup
    {[effect |-> "allow"] @@ MatchingBody(<<"Balloon:Pop">>),
     [effect |-> "deny"] @@ [MatchingBody(<<>>) EXCEPT !.query_validation = "never"]}

\* core.validate_grants(grants=[grant], schema=grant_schema)
validate_grants(grant) ==
    [valid |->
        /\ grant.effect \in Effects
        /\ grant.query_validation \in {"none", "validate", "error"}
        /\ grant.context_validation \in {"none", "grant", "error"}
        /\ Range(grant.actions) \subseteq UNION {DeclaredActions[t] : t \in DOMAIN DeclaredActions}]

\* requests passed to the app: valid ones, one whose action its resource type
\* does not declare, one that violates request_schema, one with an identity
\* that does not conform to its identity schema
FacadeRequests ==
    {r @@ [resource_type |-> "Balloon", shape |-> "conforming", identities |-> "conforming"] :
        r \in Requests}
    \cup {[action |-> "Balloon:Pop", context |-> "object", resource_type |-> "Balloon",
           shape |-> "conforming", identities |-> "conforming"],
          [action |-> "Balloon:Read", context |-> "object", resource_type |-> "Balloon",
           shape |-> "violating", identities |-> "conforming"],
          [action |-> "Balloon:Read", context |-> "object", resource_type |-> "Balloon",
           shape |-> "conforming", identities |-> "violating"]}

\* core.validate_request(request=request, schema=request_schema)
validate_request(request) ==
    [valid |->
        /\ request.shape = "conforming"
        /\ request.action \in DeclaredActions[request.resource_type]
        /\ request.identities = "conforming"]

NoFacadeCall == [op |-> None]

\* no call made yet
FacadeInit == fa_out = NoFacadeCall

FacadeCall(op, arg, raises, invoked, returned) ==
    [op |-> op, arg |-> arg, raises |-> raises, invoked |-> invoked,
     returned |-> returned, before |-> Tables]

\* AuthzeeAsync.enact(new_grant): a copy of new_grant is validated, then the
\* enact of self._storage is called with new_grant
FacadeEnact ==
    /\ Quiet
    /\ uuid_ctr < MaxGrants
    /\ \E new_grant \in FacadeGrants :
         LET ng_copy == new_grant
             grant_val == validate_grants(ng_copy)
         IN  IF grant_val.valid = FALSE
             THEN /\ fa_out' = FacadeCall("enact", new_grant,
                                   RaiseSpecificationError("GrantError", {"message", "response"}),
                                   FALSE, <<>>)
                  /\ UNCHANGED store_vars
             ELSE IF ~eng.has_storage
             THEN /\ fa_out' = FacadeCall("enact", new_grant, "AttributeError", FALSE, <<>>)
                  /\ UNCHANGED store_vars
             ELSE /\ enact(new_grant)
                  /\ fa_out' = FacadeCall("enact", new_grant, None, TRUE,
                                   <<[grant_uuid |-> uuid_ctr + 1] @@ new_grant>>)
    /\ UNCHANGED not_facade

\* a call that validates its request and then calls the method of self._compute
FacadeComputeCall(op) ==
    /\ Quiet
    /\ \E request \in FacadeRequests, n \in PageSizes, p \in BOOLEAN, m \in RefsPageSizes :
         /\ p = FALSE => m = 1
         /\ LET request_val == validate_request(request)
            IN  fa_out' =
                  IF request_val.valid = FALSE
                  THEN FacadeCall(op, request,
                           RaiseSpecificationError("RequestError", {"message", "response"}),
                           FALSE, <<>>)
                  ELSE FacadeCall(op, request, ComputeCallRaises, eng.compute # None, <<>>)
    /\ UNCHANGED <<store_vars, not_facade>>

\* AuthzeeAsync.authorize(request, ...)
FacadeAuthorize == FacadeComputeCall("authorize")

\* ------------------------------------------------------- storage latches
\* in_process_storage.py create_latch .. cleanup_latches, on _latch_lut
\* (an insertion-ordered dict keyed by the UUID of each latch)

\* the uuids a caller passes: those that uuid4 hands out in the run, and
\* one that is never created
LatchKeys == 1..(MaxLatches + 1)

\* datetime.now(tz=utc).isoformat() at clock reading t
isoformat(t) == str(t)

\* datetime.fromisoformat(text): the instant the text names
fromisoformat(text) == int(text).value

\* the datetimes passed as `before`: timezone-aware ones, and naive ones
Datetimes == [aware : BOOLEAN, t : 0..(MaxClock + 1)]

NoDatetime == [aware |-> TRUE, t |-> 0]

in_latch_lut(lut, key) == \E i \in 1..Len(lut) : lut[i].storage_latch_uuid = key

LatchAt(lut, key) == CHOOSE i \in 1..Len(lut) : lut[i].storage_latch_uuid = key

\* LatchNotFoundError declares no __init__: it takes no keyword arguments
LatchNotFoundErrorParams == {}

\* raise exceptions.LatchNotFoundError(**kwargs)
RaiseLatchNotFoundError(kwargs) ==
    IF kwargs \subseteq LatchNotFoundErrorParams THEN "LatchNotFoundError" ELSE "TypeError"

NoLatchCall ==
    [op |-> None, key |-> 0, cutoff |-> NoDatetime, raises |-> None, returned |-> <<>>,
     lut_before |-> <<>>, shm_before |-> NoLatch]

LatchCall(op, key, cutoff, raises, returned) ==
    [op |-> op, key |-> key, cutoff |-> cutoff, raises |-> raises, returned |-> returned,
     lut_before |-> latch_lut, shm_before |-> lt_shm]

LatchInit ==
    /\ latch_lut = <<>>
    /\ lt_ctr = 0
    /\ lt_now = 0
    /\ lt_shm = SharedMemLatch(NoLatch)
    /\ lt_set = {}
    /\ lt_call = NoLatchCall

\* enact(new_grant) between two latch calls
LatchEnact ==
    /\ Quiet
    /\ uuid_ctr < MaxGrants
    /\ enact([effect |-> "allow"] @@ MatchingBody(<<>>))
    /\ UNCHANGED <<scan_vars, auth_vars, ext_vars>>

\* time passes between two calls
LatchTick ==
    /\ lt_now < MaxClock
    /\ lt_now' = lt_now + 1
    /\ UNCHANGED <<latch_lut, lt_ctr, lt_shm, lt_set, lt_call, not_latch>>

\* the dict that create_latch builds
new_latch(n, now) == [storage_latch_uuid |-> n, set |-> FALSE, created_at |-> isoformat(now)]

\* create_latch()
CreateLatch ==
    /\ lt_ctr < MaxLatches
    /\ lt_ctr' = lt_ctr + 1
    /\ latch_lut' = Append(latch_lut, new_latch(lt_ctr + 1, lt_now))
    /\ lt_call' = LatchCall("create_latch", 0, NoDatetime, None,
                            <<new_latch(lt_ctr + 1, lt_now)>>)
    /\ UNCHANGED <<lt_now, lt_shm, lt_set, not_latch>>

\* get_latch(storage_latch_uuid)
GetLatch ==
    \E key \in LatchKeys :
        /\ lt_call' =
              IF ~in_latch_lut(latch_lut, key)
              THEN LatchCall("get_latch", key, NoDatetime,
                             RaiseLatchNotFoundError({"storage_latch_uuid"}), <<>>)
              ELSE LatchCall("get_latch", key, NoDatetime, None,
                             <<latch_lut[LatchAt(latch_lut, key)]>>)
        /\ UNCHANGED <<latch_lut, lt_ctr, lt_now, lt_shm, lt_set, not_latch>>

\* set_latch that flips the flag
set_latch_Toggled(lut, key) == [lut EXCEPT ![LatchAt(lut, key)].set = ~@]

\* set_latch that sets every latch
set_latch_All(lut, key) == [i \in 1..Len(lut) |-> [lut[i] EXCEPT !.set = TRUE]]

\* self._latch_lut[storage_latch_uuid]["set"] = True
set_latch(lut, key) == [lut EXCEPT ![LatchAt(lut, key)].set = TRUE]

\* set_latch(storage_latch_uuid)
SetLatch ==
    \E key \in LatchKeys :
        IF ~in_latch_lut(latch_lut, key)
        THEN /\ lt_call' = LatchCall("set_latch", key, NoDatetime,
                                     RaiseLatchNotFoundError({"storage_latch_uuid"}), <<>>)
             /\ UNCHANGED <<latch_lut, lt_ctr, lt_now, lt_shm, lt_set, not_latch>>
        ELSE /\ latch_lut' = set_latch(latch_lut, key)
             /\ lt_set' = lt_set \cup {key}
             /\ lt_call' = LatchCall("set_latch", key, NoDatetime, None,
                                     <<set_latch(latch_lut, key)[LatchAt(latch_lut, key)]>>)
             /\ UNCHANGED <<lt_ctr, lt_now, lt_shm, not_latch>>

\* del self._latch_lut[storage_latch_uuid]
del_latch(lut, key) == SelectSeq(lut, LAMBDA latch : latch.storage_latch_uuid # key)

\* delete_latch(storage_latch_uuid)
DeleteLatch ==
    \E key \in LatchKeys :
        IF ~in_latch_lut(latch_lut, key)
        THEN /\ lt_call' = LatchCall("delete_latch", key, NoDatetime,
                                     RaiseLatchNotFoundError({"storage_latch_uuid"}), <<>>)
             /\ UNCHANGED <<latch_lut, lt_ctr, lt_now, lt_shm, lt_set, not_latch>>
        ELSE /\ latch_lut' = del_latch(latch_lut, key)
             /\ lt_call' = LatchCall("delete_latch", key, NoDatetime, None, <<>>)
             /\ UNCHANGED <<lt_ctr, lt_now, lt_shm, lt_set, not_latch>>

\* created_at < before that also takes the equal instant
created_before_Inclusive(latch, before) == fromisoformat(latch.created_at) <= before.t

\* created_at < before, for a timezone-aware before
created_before(latch, before) == fromisoformat(latch.created_at) < before.t

\* the two loops of cleanup_latches
latches_kept(lut, before) == SelectSeq(lut, LAMBDA latch : ~created_before(latch, before))

\* cleanup_latches(before): the comparison of the first loop raises for a
\* naive before, since created_at is timezone-aware, before anything is deleted
CleanupLatches ==
    \E before \in Datetimes :
        IF latch_lut # <<>> /\ ~before.aware
        THEN /\ lt_call' = LatchCall("cleanup_latches", 0, before, "TypeError", <<>>)
             /\ UNCHANGED <<latch_lut, lt_ctr, lt_now, lt_shm, lt_set, not_latch>>
        ELSE /\ latch_lut' = latches_kept(latch_lut, before)
             /\ lt_call' = LatchCall("cleanup_latches", 0, before, None, <<>>)
             /\ UNCHANGED <<lt_ctr, lt_now, lt_shm, lt_set, not_latch>>

\* SharedMemLatch.set()
ShmSet ==
    /\ lt_shm' = set(lt_shm)
    /\ lt_call' = LatchCall("SharedMemLatch.set", 0, NoDatetime, None, <<>>)
    /\ UNCHANGED <<latch_lut, lt_ctr, lt_now, lt_set, not_latch>>

\* AuthzeeAsync.audit_page(request, page_ref, ...)
FacadeAuditPage == FacadeComputeCall("audit_page")

\* ------------------------------- InProcessCompute over a kind of storage
\* the storage modules a compute is started with: InProcessStorage, which
\* sets parallel_paging_supported and defines get_grant_page_refs_page, and
\* storages that page as it does but keep get_grant_page_refs_page of
\* StorageModule, with parallel_paging_supported left False or set True
StorageKinds ==
    {[name |-> "InProcessStorage", parallel_paging_supported |-> TRUE, refs_defined |-> TRUE],
     [name |-> "Sequential", parallel_paging_supported |-> FALSE, refs_defined |-> FALSE],
     [name |-> "Unfinished", parallel_paging_supported |-> TRUE, refs_defined |-> FALSE]}

\* StorageModule.get_grant_page_refs_page that raises nothing when parallel
\* paging is not supported
StorageModule_get_grant_page_refs_page_Silent(parallel_paging_supported) ==
    IF parallel_paging_supported THEN RaiseOf("NotImplementedError") ELSE None

\* StorageModule.get_grant_page_refs_page: what it raises
StorageModule_get_grant_page_refs_page(parallel_paging_supported) ==
    IF parallel_paging_supported
    THEN RaiseOf("NotImplementedError")
    ELSE RaiseOf("ParallelPaginationNotSupported")

\* what the first call of _get_page_or_pages raises over a storage of the kind
PagingRaises(storage, parallel_paging) ==
    IF parallel_paging /\ ~storage.refs_defined
    THEN StorageModule_get_grant_page_refs_page(storage.parallel_paging_supported)
    ELSE None

NoPagedCall == [op |-> None]

PagedInit == pp_out = NoPagedCall

PagedCall(op, storage, args, raises, returned) ==
    [op |-> op, storage |-> storage, args |-> args, raises |-> raises,
     returned |-> returned]

\* InProcessCompute.authorize over a storage of some kind: the deny scan's
\* first _get_page_or_pages call raises, or the call runs as over InProcessStorage
PagedAuthorize ==
    /\ Quiet
    /\ \E storage \in StorageKinds, r \in ComputeRequests, n \in PageSizes, p \in BOOLEAN,
          m \in RefsPageSizes :
         /\ p = FALSE => m = 1
         /\ LET args == [request |-> r, grants_page_size |-> n, parallel_paging |-> p,
                         refs_page_size |-> m]
                raises == PagingRaises(storage, p)
            IN  pp_out' =
                  IF raises # None
                  THEN PagedCall("authorize", storage, args, raises, <<>>)
                  ELSE PagedCall("authorize", storage, args, None, <<authorize(args)>>)
    /\ UNCHANGED <<store_vars, not_paged>>

\* InProcessCompute.audit_page over a storage of some kind, from the first page
PagedAuditPage ==
    /\ Quiet
    /\ \E storage \in StorageKinds, r \in ComputeRequests, n \in PageSizes, p \in BOOLEAN,
          m \in RefsPageSizes :
         /\ p = FALSE => m = 1
         /\ LET args == [request |-> r, grants_page_size |-> n, parallel_paging |-> p,
                         refs_page_size |-> m]
                raises == PagingRaises(storage, p)
            IN  pp_out' =
                  IF raises # None
                  THEN PagedCall("audit_page", storage, args, raises, <<>>)
                  ELSE PagedCall("audit_page", storage, args, None,
                                 <<audit_page(r, NoPageRef, n, p, m).resp>>)
    /\ UNCHANGED <<store_vars, not_paged>>

\* ------------------------- the storage instances bound to one storage_ptr
\* the app's own instance, and an instance constructed from the same
\* storage_ptr later on (InProcessCompute.start would create one at its last
\* but one line, which it does not reach)
Instances == {"app", "new"}

\* whether the tables of an instance are those of storage_ptr: __init__ binds
\* them, and shutdown() of the app's instance rebinds that instance's to new dicts
BoundToPtr(instance) == instance # "app" \/ eng.bound

NoRead == [op |-> None]

InstInit ==
    /\ sh_latch_lut = <<>>
    /\ rd_out = NoRead

Read(op, instance, raises, grants, latches) ==
    [op |-> op, instance |-> instance, raises |-> raises, grants |-> grants,
     latches |-> latches, after_shutdown |-> (eng.state = "Shutdown" /\ ~eng.bound)]

\* create_latch() through the app's storage instance
InstCreateLatch ==
    /\ eng.has_storage
    /\ lt_ctr < MaxLatches
    /\ lt_ctr' = lt_ctr + 1
    /\ IF eng.bound
       THEN /\ latch_lut' = Append(latch_lut, new_latch(lt_ctr + 1, lt_now))
            /\ UNCHANGED sh_latch_lut
       ELSE /\ sh_latch_lut' = Append(sh_latch_lut, new_latch(lt_ctr + 1, lt_now))
            /\ UNCHANGED latch_lut
    /\ UNCHANGED <<store_vars, not_latch_inst>>
    /\ UNCHANGED <<lt_now, lt_shm, lt_set, lt_call, rd_out>>

\* get_grants_page(effect=None, action=None, page_ref=None, grants_page_size)
\* through an instance: a page of list(self._grant_lut.values())
InstGetGrantsPage ==
    /\ eng.has_storage
    /\ \E instance \in Instances, n \in PageSizes :
         rd_out' =
            IF BoundToPtr(instance)
            THEN Read("get_grants_page", instance, None,
                      get_grants_page(None, None, NoPageRef, n).grants, <<>>)
            ELSE Read("get_grants_page", instance, None, Slice(sh_lut, 0, n), <<>>)
    /\ UNCHANGED <<store_vars, not_inst, sh_latch_lut>>

\* get_latch(storage_latch_uuid) through an instance
InstGetLatch ==
    /\ eng.has_storage
    /\ \E instance \in Instances, key \in 1..MaxLatches :
         LET lut == IF BoundToPtr(instance) THEN latch_lut ELSE sh_latch_lut
         IN  rd_out' =
               IF ~in_latch_lut(lut, key)
               THEN Read("get_latch", instance,
                         RaiseLatchNotFoundError({"storage_latch_uuid"}), <<>>, <<>>)
               ELSE Read("get_latch", instance, None, <<>>, <<lut[LatchAt(lut, key)]>>)
    /\ UNCHANGED <<store_vars, not_inst, sh_latch_lut>>

\* ----------------------------------------------------- MultiprocessCompute
\* a Python value passed as an argument: a dict of keyword arguments, or a
\* tuple of values
Dict(kwargs) == [type |-> "dict", value |-> kwargs]

Tuple(items) == [type |-> "tuple", value |-> items]

\* loop.run_in_executor(executor, func, *args): what func is called with; here
\* args is the single value that follows func in the call
run_in_executor_args(arg) == <<arg>>

\* f(**kwargs): a mapping is unpacked, anything else raises TypeError
Unpack(kwargs) == IF kwargs.type = "dict" THEN None ELSE "TypeError"

\* the global authzee_compute of the module, in the process that runs a worker
\* function for the executor: _executor_start assigns it in the processes of a
\* pool; with executor None the loop's default executor runs the function in a
\* thread of the calling process, where nothing assigns the name
authzee_compute(executor) == IF executor = None THEN None ELSE "compute_type"

\* _executor_authorize(authorize_kwargs): the name authzee_compute is looked
\* up, then the argument is unpacked, then the compute's authorize is called
_executor_authorize(args, executor) ==
    IF authzee_compute(executor) = None THEN [raises |-> "NameError", returned |-> <<>>]
    ELSE IF Unpack(args[1]) # None
    THEN [raises |-> Unpack(args[1]), returned |-> <<>>]
    ELSE [raises |-> None, returned |-> <<authorize(args[1].value)>>]

\* _executor_audit_page(audit_page_kwargs), likewise
_executor_audit_page(args, executor) ==
    IF authzee_compute(executor) = None THEN [raises |-> "NameError", returned |-> <<>>]
    ELSE IF Unpack(args[1]) # None
    THEN [raises |-> Unpack(args[1]), returned |-> <<>>]
    ELSE [raises |-> None,
          returned |-> <<audit_page(args[1].value.request, args[1].value.page_ref,
                                    args[1].value.grants_page_size,
                                    args[1].value.parallel_paging,
                                    args[1].value.refs_page_size).resp>>]

NoDelegatedCall == [op |-> None]

\* the compute after __init__: no executor; neither __init__ assigns locality
\* or parallel_paging_supported
DelegatedInit ==
    /\ mp_compute = [_executor |-> None, locality |-> None,
                     parallel_paging_supported |-> None]
    /\ mp_calls = <<>>
    /\ mp_out = NoDelegatedCall

DelegatedCall(op, args, outcome) ==
    [op |-> op, args |-> args, raises |-> outcome.raises, returned |-> outcome.returned]

\* ComputeModule.initialize, which MultiprocessCompute inherits: it stores its
\* arguments and assigns ModuleLocality.SYSTEM to locality and to
\* parallel_paging_supported
DelegatedInitialize ==
    /\ mp_compute' = [mp_compute EXCEPT !.locality = "SYSTEM",
                                        !.parallel_paging_supported = "SYSTEM"]
    /\ mp_out' = DelegatedCall("initialize", <<>>, [raises |-> None, returned |-> <<>>])
    /\ UNCHANGED <<store_vars, mp_calls, not_deleg>>

\* ComputeModule.setup and teardown, inherited: `pass`
DelegatedSetup ==
    /\ \E op \in {"setup", "teardown"} :
         mp_out' = DelegatedCall(op, <<>>, [raises |-> None, returned |-> <<>>])
    /\ UNCHANGED <<store_vars, mp_compute, mp_calls, not_deleg>>

\* MultiprocessCompute.start: `await super().start(...)` comes first; the
\* locality and the pool are assigned after it
DelegatedStart ==
    /\ mp_compute' =
         IF ComputeStartRaises("MultiprocessCompute") # None THEN mp_compute
         ELSE [mp_compute EXCEPT !._executor = "ProcessPoolExecutor", !.locality = "SYSTEM"]
    /\ mp_out' = DelegatedCall("start", <<>>,
                     [raises |-> ComputeStartRaises("MultiprocessCompute"), returned |-> <<>>])
    /\ UNCHANGED <<store_vars, mp_calls, not_deleg>>

\* MultiprocessCompute.shutdown: `if self._executor:` guards the shutdown of
\* the pool, after which self._executor is None
DelegatedShutdown ==
    /\ mp_compute' =
         IF mp_compute._executor = None THEN mp_compute
         ELSE [mp_compute EXCEPT !._executor = None]
    /\ mp_out' = DelegatedCall("shutdown", <<>>, [raises |-> None, returned |-> <<>>])
    /\ UNCHANGED <<store_vars, mp_calls, not_deleg>>

\* a call awaits run_in_executor(self._executor, func, (kwargs,)): it is
\* suspended with the executor it read and the one-element tuple holding the
\* dict of its arguments, and other tasks run before it resumes
Delegate(op, args) ==
    /\ Len(mp_calls) < MaxCalls
    /\ mp_calls' = Append(mp_calls, [op |-> op, args |-> args,
                                     executor |-> mp_compute._executor])
    /\ UNCHANGED <<store_vars, mp_compute, mp_out, not_deleg>>

\* MultiprocessCompute.authorize
DelegatedAuthorize ==
    \E r \in ComputeRequests, n \in PageSizes, p \in BOOLEAN, m \in RefsPageSizes :
        /\ p = FALSE => m = 1
        /\ Delegate("authorize", [request |-> r, grants_page_size |-> n,
                                  parallel_paging |-> p, refs_page_size |-> m])

\* MultiprocessCompute.audit_page, from the first page
DelegatedAuditPage ==
    \E r \in ComputeRequests, n \in PageSizes, p \in BOOLEAN, m \in RefsPageSizes :
        /\ p = FALSE => m = 1
        /\ Delegate("audit_page", [request |-> r, page_ref |-> NoPageRef,
                                   grants_page_size |-> n, parallel_paging |-> p,
                                   refs_page_size |-> m])

\* the executor has run the worker function of one of the suspended calls, in
\* any order, and the call resumes with what the function returned or raised
DelegatedDone ==
    /\ \E i \in 1..Len(mp_calls) :
         LET call == mp_calls[i]
             passed == run_in_executor_args(Tuple(<<Dict(call.args)>>))
         IN  /\ mp_out' = DelegatedCall(call.op, call.args,
                              IF call.op = "authorize"
                              THEN _executor_authorize(passed, call.executor)
                              ELSE _executor_audit_page(passed, call.executor))
             /\ mp_calls' = RemoveAt(mp_calls, i)
    /\ UNCHANGED <<store_vars, mp_compute, not_deleg>>

\* --------------------------- enact and repeal with any actions list
\* the actions lists of the grants handed to InProcessStorage.enact directly:
\* actions the resource definitions declare, one they do not, and a list that
\* names an action twice
ActionLists ==
    {<<>>, <<"Balloon:Read">>, <<"Balloon:Read", "Balloon:Inflate">>,
     <<"Balloon:Read", "Balloon:Read">>,
     <<"Balloon:Pop">>, <<"Balloon:Read", "Balloon:Pop">>, <<"Balloon:Pop", "Balloon:Read">>}

NoIndexCall == [op |-> None]

IndexInit == ix_call = NoIndexCall

\* enact(new_grant) on the storage, with any actions list
IndexEnact ==
    /\ Quiet
    /\ uuid_ctr < MaxGrants
    /\ \E e \in Effects, actions \in ActionLists :
         LET new_grant == [effect |-> e, actions |-> actions] @@ PlainBody
         IN  /\ enact(new_grant)
             /\ ix_call' = [op |-> "enact", grant |-> Enacted(new_grant),
                            raises |-> enact_statements(Tables, Enacted(new_grant)).raises,
                            before |-> Tables]
    /\ UNCHANGED not_index

\* repeal(grant_uuid) on the storage, of a grant that the primary table holds
IndexRepeal ==
    /\ Quiet
    /\ \E g \in Range(grant_lut) :
         /\ repeal(g.grant_uuid)
         /\ ix_call' = [op |-> "repeal", grant |-> g,
                        raises |-> repeal_statements(Tables, g.grant_uuid).raises,
                        before |-> Tables]
    /\ UNCHANGED not_index

\* ------------------- writes through the app, and scans asked of its compute
\* grants enacted through the app
SharedGrants ==
    {[effect |-> e, actions |-> a] @@ PlainBody : e \in Effects, a \in {<<>>, <<"Balloon:Read">>}}

NoShared == [op |-> None]

SharedInit ==
    /\ sw_live = <<>>
    /\ sw_out = NoShared

\* the grants of every page of the app's get_grants_page, from page_ref on
RECURSIVE facade_pages(_, _, _, _)
facade_pages(effect, action, page_ref, grants_page_size) ==
    LET page == get_grants_page(effect, action, page_ref, grants_page_size)
    IN  page.grants \o
          (IF page.next_page_ref = NoPageRef THEN <<>>
           ELSE facade_pages(effect, action, page.next_page_ref, grants_page_size))

\* start() of an app built with InProcessCompute and InProcessStorage, the
\* compute_kwargs being what ComputeModule.__init__ takes
StartInProcess ==
    /\ start
    /\ life_out'.definitions_valid
    /\ life_out'.compute_type = "InProcessCompute"
    /\ life_out'.compute_kwargs = ComputeInitParams("InProcessCompute")
    /\ life_out'.storage = "PROCESS"

\* app.enact(new_grant): through the app's storage instance
SharedEnact ==
    /\ eng.has_storage
    /\ uuid_ctr < MaxGrants
    /\ \E g \in SharedGrants :
         IF BoundToPtr("app")
         THEN /\ enact(g)
              /\ sw_live' = Append(sw_live, [grant_uuid |-> uuid_ctr + 1] @@ g)
              /\ sw_out' = [op |-> "enact", raises |-> None]
              /\ UNCHANGED sh_lut
         ELSE /\ sh_lut' = Append(sh_lut, [grant_uuid |-> uuid_ctr + 1] @@ g)
              /\ uuid_ctr' = uuid_ctr + 1
              /\ sw_out' = [op |-> "enact", raises |-> "KeyError"]
              /\ UNCHANGED <<grant_lut, grant_effect_filter, grant_action_filter,
                             grant_both_filter, sw_live>>
    /\ UNCHANGED <<eng, life_out, not_shared>>

\* app.repeal(grant_uuid): through the app's storage instance
SharedRepeal ==
    /\ eng.has_storage
    /\ \E u \in 1..MaxGrants :
         IF BoundToPtr("app")
         THEN IF InLut(u)
              THEN /\ repeal(u)
                   /\ sw_live' = WithoutUuid(sw_live, u)
                   /\ sw_out' = [op |-> "repeal", raises |-> None]
                   /\ UNCHANGED sh_lut
              ELSE /\ sw_out' = [op |-> "repeal", raises |-> "GrantNotFoundError"]
                   /\ UNCHANGED <<store_vars, sh_lut, sw_live>>
         ELSE IF InShLut(u)
              THEN /\ sh_lut' = WithoutUuid(sh_lut, u)
                   /\ sw_out' = [op |-> "repeal", raises |-> "KeyError"]
                   /\ UNCHANGED <<store_vars, sw_live>>
              ELSE /\ sw_out' = [op |-> "repeal", raises |-> "GrantNotFoundError"]
                   /\ UNCHANGED <<store_vars, sh_lut, sw_live>>
    /\ UNCHANGED <<eng, life_out, not_shared>>

\* app.authorize / app.audit_page with a valid request: what the call of the
\* compute raises, the grants its scan read, and the pages the app's
\* get_grants_page returns for the same filters at that moment
SharedScan(op, effect) ==
    /\ eng.has_storage
    /\ \E r \in ComputeRequests, n \in PageSizes, p \in BOOLEAN, m \in RefsPageSizes :
         /\ p = FALSE => m = 1
         /\ sw_out' =
              [op |-> op, bound |-> BoundToPtr("app"), effect |-> effect,
               action |-> r.action,
               raises |-> ComputeCallRaises,
               compute |-> <<>>,
               facade_raises |-> IF BoundToPtr("app") THEN None ELSE "KeyError",
               facade |-> IF BoundToPtr("app")
                          THEN facade_pages(effect, r.action, NoPageRef, n)
                          ELSE <<>>]
    /\ UNCHANGED <<store_vars, sw_live, life_vars, not_shared>>

\* audit_page pages the grants of either effect for the request's action
SharedAuditPage == SharedScan("audit_page", None)

\* authorize pages the deny grants, then the allow grants
SharedAuthorize == \E effect \in Effects : SharedScan("authorize", effect)

\* ------------------------------------ writers at work while a client scans
WriterInit == cw_touched = {}

\* the uuids written since the scan began; a write made while no scan is under
\* way starts the set anew
Touched(grant_uuid) == IF sc_pc = "idle" THEN {} ELSE cw_touched \cup {grant_uuid}

\* enact(new_grant) by another task, between two page calls of the client or
\* while no scan is under way
WriterEnact ==
    /\ sc_pc \in {"idle", "scan"}
    /\ uuid_ctr < MaxGrants
    /\ \E g \in SharedGrants : enact(g)
    /\ cw_touched' = Touched(uuid_ctr + 1)
    /\ UNCHANGED not_writer

\* repeal(grant_uuid) by another task, between two page calls of the client or
\* while no scan is under way
WriterRepeal ==
    /\ sc_pc \in {"idle", "scan"}
    /\ \E u \in 1..MaxGrants :
         /\ repeal(u)
         /\ cw_touched' = Touched(u)
    /\ UNCHANGED not_writer

\* ----------------------------- _page_gen with the sizes the app hands through
\* AuthzeeAsync.authorize and audit_page pass grants_page_size and
\* refs_page_size on as given; no lower bound is applied
AnyPageSizes == 0..MaxPageSize

AnyRefsPageSizes == 0..MaxRefsPageSize

NoPageGen ==
    [effect |-> None, request |-> [action |-> None, context |-> None],
     grants_page_size |-> 0, parallel_paging |-> FALSE, refs_page_size |-> 0]

PageGenInit ==
    /\ pg_pc = "idle"
    /\ pg_args = NoPageGen
    /\ pg_page_ref = NoPageRef
    /\ pg_calls = 0

\* a grant is enacted while no scan is under way
PageGenEnact ==
    /\ pg_pc = "idle"
    /\ uuid_ctr < MaxGrants
    /\ \E g \in SharedGrants : enact(g)
    /\ UNCHANGED not_store

\* authorize begins with _page_gen(effect="deny"), page_ref = None; a client
\* of audit_page (effect None) begins with page_ref = None
PageGenBegin ==
    /\ pg_pc = "idle"
    /\ \E e \in {"deny", None}, r \in ComputeRequests, n \in AnyPageSizes, p \in BOOLEAN,
          m \in AnyRefsPageSizes :
         /\ p = FALSE => m = 1
         /\ pg_args' = [effect |-> e, request |-> r, grants_page_size |-> n,
                        parallel_paging |-> p, refs_page_size |-> m]
    /\ pg_pc' = "scan"
    /\ pg_page_ref' = NoPageRef
    /\ pg_calls' = 0
    /\ UNCHANGED <<store_vars, not_pagegen>>

\* range(0, total_grants, grants_page_size) raises ValueError for a step of 0
range_raises(grants_page_size) == grants_page_size = 0

\* whether authorize returns on the response to a page of the scan under way
PageReturns(resp) ==
    IF pg_args.effect = "deny" THEN DenyReturns(resp)
    ELSE IF pg_args.effect = "allow" THEN AllowReturns(resp)
    ELSE FALSE

\* one turn of the loop: a _get_page_or_pages call; in authorize the page is
\* yielded and evaluated, and the call returns on a deciding response, leaving
\* _page_gen; then the test of next_page_ref, after which the deny scan is
\* followed by the allow scan and the allow scan by the return of resp
PageGenStep ==
    /\ pg_pc = "scan"
    /\ IF pg_args.parallel_paging /\ range_raises(pg_args.grants_page_size)
       THEN /\ pg_pc' = "raised"
            /\ UNCHANGED <<pg_page_ref, pg_args>>
       ELSE LET page == _get_page_or_pages(pg_args.effect, pg_args.request.action,
                            pg_page_ref, pg_args.grants_page_size, pg_args.parallel_paging,
                            pg_args.refs_page_size)
            IN  IF PageReturns(core_authorize(pg_args.request, page.grants))
                THEN /\ pg_pc' = "returned"
                     /\ UNCHANGED <<pg_page_ref, pg_args>>
                ELSE IF page.next_page_ref # NoPageRef
                THEN /\ pg_pc' = "scan"
                     /\ pg_page_ref' = page.next_page_ref
                     /\ UNCHANGED pg_args
                ELSE IF pg_args.effect = "deny"
                THEN /\ pg_pc' = "scan"
                     /\ pg_page_ref' = NoPageRef
                     /\ pg_args' = [pg_args EXCEPT !.effect = "allow"]
                ELSE /\ pg_pc' = "done"
                     /\ pg_page_ref' = NoPageRef
                     /\ UNCHANGED pg_args
    /\ pg_calls' = (pg_calls + 1) % 2
    /\ UNCHANGED <<store_vars, not_pagegen>>

\* the call has ended: its scans ran to their end, it returned on a page, or
\* it raised
PageGenEnd ==
    /\ pg_pc \in {"done", "returned", "raised"}
    /\ pg_pc' = "idle"
    /\ pg_args' = NoPageGen
    /\ pg_page_ref' = NoPageRef
    /\ pg_calls' = 0
    /\ UNCHANGED <<store_vars, not_pagegen>>

Init ==
    /\ StorageInit /\ ScanInit /\ AuthorizeInit /\ AuditInit /\ RefsInit
    /\ CursorInit /\ CopyInit /\ LifeInit /\ KeyInit /\ FacadeInit /\ LatchInit
    /\ PagedInit
    /\ InstInit
    /\ DelegatedInit
    /\ IndexInit
    /\ SharedInit
    /\ WriterInit
    /\ PageGenInit

Next ==
    \/ Enact \/ Repeal
    \/ ScanBegin \/ ScanPage \/ ScanAgain \/ ScanEnd
    \/ RefsBegin \/ RefsPage \/ RefsEnd

\* the store and a client paging through it
Spec == Init /\ [][Next]_vars

NextAuthorize == EnactPolicy \/ AuthorizeBegin \/ DenyPage \/ AllowPage \/ AuthorizeEnd

\* the store and authorize calls of InProcessCompute
SpecAuthorize == Init /\ [][NextAuthorize]_vars

NextCursor == Enact \/ Repeal \/ CursorCall \/ CursorEnd

\* the store and paging calls with arbitrary page references
SpecCursor == Init /\ [][NextCursor]_vars

NextCopy == CopyEnact \/ CopyGetGrant \/ CopyGetPage \/ CopyMutate \/ CopyMutateNested

\* the store and a caller that mutates the grant dicts it passed in and got back
SpecCopy == Init /\ [][NextCopy]_vars

NextLife ==
    \/ start \/ shutdown
    \/ LifeEnact \/ LifeRepeal \/ LifeGetGrant
    \/ LifeGetGrantsPage \/ LifeGetGrantPageRefsPage
    \/ LifeAuditPage \/ LifeAuthorize \/ ExecutorDone

\* the app, from construction through start() and shutdown(), and calls on it
SpecLife == Init /\ [][NextLife]_vars

NextAudit == EnactPolicy \/ AuditBegin \/ AuditPage \/ AuditEnd

\* the store and a client iterating audit_page of InProcessCompute
SpecAudit == Init /\ [][NextAudit]_vars

NextKeyed == KeyEnact \/ KeyRepeal \/ KeyGetGrant

\* the store and calls of enact, repeal and get_grant with their outcomes
SpecKeyed == Init /\ [][NextKeyed]_vars

NextFacade == StartInProcess \/ FacadeEnact \/ FacadeAuthorize \/ FacadeAuditPage

\* the app built with InProcessCompute and InProcessStorage: start() and calls
\* of enact, authorize and audit_page on it
SpecFacade == Init /\ [][NextFacade]_vars

\* the store, the latches of the in-process storage and a SharedMemLatch
NextLatch ==
    \/ LatchEnact
    \/ LatchTick
    \/ CreateLatch
    \/ GetLatch
    \/ SetLatch
    \/ DeleteLatch
    \/ CleanupLatches
    \/ ShmSet

SpecLatch == Init /\ [][NextLatch]_vars

NextPaged == ComputeEnact \/ PagedAuthorize \/ PagedAuditPage

\* the store and calls of InProcessCompute over storages with and without
\* parallel paging
SpecPaged == Init /\ [][NextPaged]_vars

NextInstances ==
    \/ StartInProcess \/ shutdown \/ LifeEnact
    \/ InstCreateLatch \/ InstGetGrantsPage \/ InstGetLatch

\* the app through start() and shutdown(), and reads through the storage
\* instances that share its storage_ptr
SpecInstances == Init /\ [][NextInstances]_vars

NextDelegated ==
    \/ ComputeEnact \/ DelegatedInitialize \/ DelegatedSetup
    \/ DelegatedStart \/ DelegatedShutdown
    \/ DelegatedAuthorize \/ DelegatedAuditPage \/ DelegatedDone

\* the store, a MultiprocessCompute wrapping InProcessCompute and calls of it
SpecDelegated == Init /\ [][NextDelegated]_vars

NextIndex == IndexEnact \/ IndexRepeal

\* enact calls made on the storage directly, with declared and undeclared actions
SpecIndex == Init /\ [][NextIndex]_vars

NextShared ==
    \/ StartInProcess \/ shutdown
    \/ SharedEnact \/ SharedRepeal \/ SharedAuditPage \/ SharedAuthorize

\* the app with InProcessCompute and InProcessStorage over one storage_ptr
SpecShared == Init /\ [][NextShared]_vars

NextWriters == WriterEnact \/ WriterRepeal \/ ScanBegin \/ ScanPage \/ ScanEnd

\* a client paging get_grants_page while other tasks enact and repeal
SpecWriters == Init /\ [][NextWriters]_vars

NextPageGen == PageGenEnact \/ PageGenBegin \/ PageGenStep \/ PageGenEnd

\* the scans of InProcessCompute with any sizes; the loop of _page_gen runs on
\* for as long as it can
SpecPageGen == Init /\ [][NextPageGen]_vars /\ WF_vars(PageGenStep)

\* ------------------------------------------------------------------ claims
\* the filter of a read, stated on a grant: effect and action are None or fit
Satisfies(g, effect, action) ==
    /\ effect = None \/ g.effect = effect
    /\ action = None \/ g.actions = <<>> \/ action \in Range(g.actions)

Stored == Range(grant_lut)

NoDuplicates(seq) == \A i, j \in 1..Len(seq) : seq[i] = seq[j] => i = j

\* no stored grant names an action twice in its actions list
NoRepeatedActions == \A g \in Stored : NoDuplicates(g.actions)

\* C9 (pagination coverage): a get_grants_page iteration from page_ref=None to
\* next_page_ref=None over a fixed store returns exactly the stored grants that
\* satisfy the filter, each exactly once, and a second iteration under the same
\* filters returns them in the same order.
C9_PaginationCoverage ==
    sc_pc = "done" =>
        /\ Range(sc_grants) = {g \in Stored : Satisfies(g, sc_args.effect, sc_args.action)}
        /\ NoDuplicates(sc_grants)
        /\ sc_pass = 2 => sc_grants = sc_first

\* C10 (empty-actions wildcard): a filtered read selects a stored grant iff its
\* effect fits the effect filter and the action filter is None, or the grant's
\* actions are empty, or they contain the action; so a grant with no actions is
\* returned under every action filter and a grant with actions only under those.
C10_EmptyActionsWildcard ==
    sc_pc = "done" =>
        \A g \in Stored :
           /\ g \in Range(sc_grants) <=>
                 /\ sc_args.effect = None \/ g.effect = sc_args.effect
                 /\ sc_args.action = None \/ g.actions = <<>>
                       \/ sc_args.action \in Range(g.actions)
           /\ (g.actions = <<>> /\ sc_args.effect \in {None, g.effect})
                  => g \in Range(sc_grants)
           /\ (g.actions # <<>> /\ sc_args.action # None /\ g \in Range(sc_grants))
                  => sc_args.action \in Range(g.actions)

\* an iteration filtered by an action returned a grant with no actions and left
\* out a stored grant that lists only other actions
C10_Witness ==
    /\ sc_pc = "done"
    /\ sc_args.action # None
    /\ \E g \in Range(sc_grants) : g.actions = <<>>
    /\ \E g \in Stored : g.actions # <<>> /\ sc_args.action \notin Range(g.actions)
    /\ \E g \in Range(sc_grants) : sc_args.action \in Range(g.actions)

\* ------------------------------------------------ claims about authorize
Returned == az_pc = "done"

\* the kernel's verdict on a stored grant for the request of the running call
Applicable(g) == evaluate_one(az_args.request, g).applicable

Critical(g) == evaluate_one(az_args.request, g).critical

ApplicableDenies == {g \in Stored : g.effect = "deny" /\ Applicable(g)}

ApplicableAllows == {g \in Stored : g.effect = "allow" /\ Applicable(g)}

CriticalGrants == {g \in Stored : Critical(g)}

\* C1 (deny-overrides): when the store holds a deny grant applicable to the
\* request, authorize returns authorized=false, whatever allow grants exist,
\* for every page size, refs page size and either paging mode.
C1_DenyOverrides ==
    (Returned /\ ApplicableDenies # {}) => az_resp.authorized = FALSE

\* a call under parallel paging returned on an applicable deny grant found after
\* the first slab, while an applicable allow grant was stored
C1_Witness ==
    /\ Returned
    /\ az_args.parallel_paging
    /\ Len(az_log) >= 2
    /\ az_resp.grant \in ApplicableDenies
    /\ ApplicableAllows # {}

\* C2 (allow-witness), as claimed, read for stores in which no grant evaluation
\* is critical: with no applicable deny grant and an applicable allow grant,
\* authorize returns authorized=true and cites one of the applicable allow
\* grants, on whichever page that grant lies.
C2_AllowWitness ==
    (Returned /\ ApplicableDenies = {} /\ ApplicableAllows # {} /\ CriticalGrants = {})
        => (az_resp.authorized = TRUE /\ az_resp.grant \in ApplicableAllows)

\* C3 (default deny), as claimed: when no stored grant is applicable, authorize
\* returns authorized=false, grant=null and completed=true.
C3_DefaultDeny_AsClaimed ==
    (Returned /\ ApplicableDenies = {} /\ ApplicableAllows = {})
        => (az_resp.authorized = FALSE /\ az_resp.grant = NoGrant
            /\ az_resp.completed = TRUE)

\* C3 (default deny), amended: when no stored grant is applicable and the
\* evaluation of no stored grant is critical for the request, authorize returns
\* authorized=false, grant=null and completed=true; and every call that returns
\* returns a response, because each scan evaluates at least one page.
C3_DefaultDeny ==
    /\ (Returned /\ ApplicableDenies = {} /\ ApplicableAllows = {} /\ CriticalGrants = {})
          => (az_resp.authorized = FALSE /\ az_resp.grant = NoGrant
              /\ az_resp.completed = TRUE)
    /\ Returned =>
          (az_resp # Unbound /\ \E i \in 1..Len(az_log) : az_log[i].effect = "deny")
    /\ (Returned /\ ApplicableDenies = {} /\ CriticalGrants = {})
          => \E i \in 1..Len(az_log) : az_log[i].effect = "allow"

\* a call returned the default denial over a store that holds grants, one of
\* them listing only other actions, after more than one page of a scan
C3_Witness ==
    /\ Returned
    /\ ApplicableDenies = {} /\ ApplicableAllows = {} /\ CriticalGrants = {}
    /\ \E g \in Stored :
          g.actions # <<>> /\ az_args.request.action \notin Range(g.actions)
    /\ Len(az_log) >= 3
    /\ az_resp.authorized = FALSE /\ az_resp.completed = TRUE

\* C4 (parallel equivalence), as claimed: the call returns the same authorized
\* and completed values as the same call in the other paging mode, for every
\* refs page size.
C4_ParallelEquivalence ==
    Returned =>
        \A m \in RefsPageSizes :
            LET other == authorize([az_args EXCEPT !.parallel_paging = ~@,
                                                   !.refs_page_size = m])
            IN  /\ other.authorized = az_resp.authorized
                /\ other.completed = az_resp.completed

\* C5 (short-circuit), as claimed: a page whose evaluation found an applicable
\* grant is the last page fetched, and the call returns that page's response:
\* denied for a deny grant, authorized with that grant for an allow grant.
C5_ShortCircuit ==
    \A i \in 1..Len(az_log) :
        az_log[i].resp.grant # NoGrant =>
            /\ i = Len(az_log)
            /\ Returned =>
                  /\ az_resp = az_log[i].resp
                  /\ az_resp.authorized = (az_log[i].effect = "allow")

\* C6 (critical abort), as claimed: a page whose evaluation hit a critical error
\* is the last page evaluated and the outcome has completed=false and is not
\* authorized; and completed is false only if some page hit a critical error.
C6_CriticalAbort ==
    /\ \A i \in 1..Len(az_log) :
          az_log[i].resp.completed = FALSE =>
              /\ i = Len(az_log)
              /\ Returned => (az_resp.completed = FALSE /\ az_resp.authorized = FALSE)
    /\ (Returned /\ az_resp.completed = FALSE) =>
          \E i \in 1..Len(az_log) : az_log[i].resp.completed = FALSE

NonCritical(errors) == {e \in Range(errors) : e.critical = FALSE}

\* C7 (errors are accumulated), as claimed: the response returned by authorize
\* holds every non-critical context and jmespath error recorded on any page of
\* the call.
C7_ErrorsAccumulated ==
    Returned =>
        \A i \in 1..Len(az_log) :
            /\ NonCritical(az_log[i].resp.errors.context)
                  \subseteq Range(az_resp.errors.context)
            /\ NonCritical(az_log[i].resp.errors.jmespath)
                  \subseteq Range(az_resp.errors.jmespath)

\* the jmespath error entries recorded on the pages of the call
QueryFailures ==
    UNION {Range(az_log[i].resp.errors.jmespath) : i \in 1..Len(az_log)}

FailedGrant(e) == CHOOSE g \in Stored : g.grant_uuid = e.grant_uuid

\* C8 (query failure classification), as claimed: a query failure is critical
\* exactly when query_validation is "error", and then the outcome has
\* completed=false; under "none" and "validate" the failure is a non-critical
\* entry, the grant is no match and the scan goes on, so that with no applicable
\* grant and no critical failure the result is authorized=false, completed=true.
C8_QueryFailure ==
    /\ \A e \in QueryFailures :
          e.critical <=> FailedGrant(e).query_validation = "error"
    /\ Returned =>
          /\ (\E e \in QueryFailures : e.critical) => az_resp.completed = FALSE
          /\ ((\E e \in QueryFailures : ~e.critical)
                 /\ ApplicableDenies = {} /\ ApplicableAllows = {}
                 /\ CriticalGrants = {})
                => (az_resp.authorized = FALSE /\ az_resp.completed = TRUE)

\* ------------------------------------------------ claims about audit_page
RECURSIVE Concat(_)
Concat(seqs) == IF seqs = <<>> THEN <<>> ELSE Head(seqs) \o Concat(Tail(seqs))

\* the candidate grants of the slabs of the audit, and the grants its responses
\* returned, in order
AuditSlabs == Concat([i \in 1..Len(au_log) |-> au_log[i].slab])

AuditGrants == Concat([i \in 1..Len(au_log) |-> au_log[i].resp.grants])

\* the stored grants the audit scans: either effect, the request's action
AuditCandidates == {g \in Stored : Satisfies(g, None, au_args.request.action)}

AuditApplicable == {g \in Stored : evaluate_one(au_args.request, g).applicable}

AuditCompleted == \A i \in 1..Len(au_log) : au_log[i].resp.completed

CeilDiv(n, p) == (n + p - 1) \div p

RefsGrants ==
    Concat([i \in 1..Len(rf_log) |->
              Concat([j \in 1..Len(rf_log[i].pages) |-> rf_log[i].pages[j].grants])])

\* C12 (parallel pagination covers the same scan): over a fixed store and
\* filters, the get_grants_page pages of the refs that a
\* get_grant_page_refs_page iteration from None to None returns, taken in the
\* order of the refs, are exactly the sequence of grants of the sequential scan,
\* every matching grant once; and the slab the compute builds from a refs page
\* is the concatenation of the pages of its refs with the next_page_ref of the
\* refs page.
C12_ParallelCoverage ==
    /\ (rf_pc = "done" /\ sc_pc = "done") =>
          /\ RefsGrants = sc_grants
          /\ NoDuplicates(RefsGrants)
          /\ Range(RefsGrants) =
                {g \in Stored : Satisfies(g, sc_args.effect, sc_args.action)}
    /\ \A i \in 1..Len(rf_log) :
          LET slab == _get_page_or_pages(sc_args.effect, sc_args.action,
                          rf_log[i].page_ref, sc_args.grants_page_size, TRUE,
                          rf_refs_page_size)
              pages == rf_log[i].pages
          IN  /\ slab.grants = Concat([j \in 1..Len(pages) |-> pages[j].grants])
              /\ slab.next_page_ref = rf_log[i].refs.next_page_ref

\* ------------------------------------------- claims about page references
\* the page references the store issues for a call's operation and filters: for
\* get_grants_page the positions inside the filtered list (next_page_ref of a
\* page, or a reference listed by get_grant_page_refs_page), for
\* get_grant_page_refs_page the positions inside the list of references
IssuedRefs(call) ==
    LET total == Len(FilteredGrants(call.effect, call.action))
    IN  IF call.op = "get_grants_page"
        THEN {str(k) : k \in 0..(total - 1)}
        ELSE {str(k) : k \in 1..(Len(PageRefs(total, call.grants_page_size)) - 1)}

\* C13 (invalid cursors are rejected), as claimed: a get_grants_page or
\* get_grant_page_refs_page call with a page_ref that the store did not issue
\* for that operation and those filters raises PageReferenceError and returns
\* no page.
C13_InvalidCursorRejected ==
    (cur_call # NoCursorCall /\ cur_call.page_ref \notin IssuedRefs(cur_call))
        => cur_call.raises = "PageReferenceError"

\* ------------------------------------------- claims about copies of grants
AsEnacted(seq) == \A i \in 1..Len(seq) : seq[i] = cp_enacted[seq[i].grant_uuid]

\* C14 (deep-copy isolation): whatever the caller does to the dict it passed to
\* enact and to the grants that enact, get_grant and get_grants_page returned,
\* the primary table and every index hold each grant as it was enacted, and
\* every read returns it so.
C14_DeepCopyIsolation ==
    /\ AsEnacted(grant_lut)
    /\ \A e \in Effects : AsEnacted(grant_effect_filter[e])
    /\ \A k \in ActionKeys : AsEnacted(grant_action_filter[k])
    /\ \A e \in Effects, k \in ActionKeys : AsEnacted(grant_both_filter[e][k])
    /\ AsEnacted(cp_read)

Mutated(o) ==
    cp_heap[o].value.query = "mutated" \/ cp_heap[o].value.context_schema = "mutated"

\* the dict passed to enact and the grants returned by enact, get_grant and a
\* page were all mutated, and a grant was read after that
C14_Witness ==
    /\ \A origin \in {"new_grant", "enact", "get_grant", "get_grants_page"} :
          \E o \in 1..Len(cp_heap) :
             cp_heap[o].held /\ cp_heap[o].origin = origin /\ Mutated(o)
    /\ \E o \in 1..Len(cp_heap) : cp_heap[o].held /\ cp_heap[o].value.context_schema = "mutated"
    /\ cp_read # <<>>

\* ------------------------------------------------ claims about the lifecycle
\* C15 (locality gating), as claimed: start() raises
\* LocalityIncompatibilityError exactly when the storage's locality is not in
\* locality_compatibility of the compute's locality.
C15_LocalityGating ==
    life_out.op = "start" =>
        ((life_out.raises = "LocalityIncompatibilityError")
            <=> (life_out.storage \notin locality_compatibility[life_out.compute]))

PublicOps ==
    {"enact", "repeal", "get_grant", "get_grants_page", "get_grant_page_refs_page",
     "audit_page", "authorize"}

\* C16 (lifecycle gating), as claimed: a public operation other than the
\* lifecycle ones that is called while the app is not Started is rejected: it
\* raises, returns no data and does not change the stored grants.
C16_LifecycleGating ==
    (life_out.op \in PublicOps /\ life_out.state # "Started") =>
        (life_out.raises # None /\ ~life_out.returned /\ ~life_out.changed)

\* --------------------------- claims about enact, repeal and get_grant
\* the sequence without the grant of uuid n, the others in their order
Without(seq, n) == SelectSeq(seq, LAMBDA g : g.grant_uuid # n)

\* the tables are those before the call but for the grant of uuid n
TablesWithout(before, n) ==
    /\ grant_lut = Without(before.lut, n)
    /\ \A e \in Effects : grant_effect_filter[e] = Without(before.effect[e], n)
    /\ \A k \in ActionKeys : grant_action_filter[k] = Without(before.action[k], n)
    /\ \A e \in Effects, k \in ActionKeys :
          grant_both_filter[e][k] = Without(before.both[e][k], n)

\* the grant of uuid n is in no table and on no page of any filter
Gone(n) ==
    /\ ~InLut(n)
    /\ \A e \in Effects \cup {None}, a \in ActionKeys :
          \A g \in Range(FilteredGrants(e, a)) : g.grant_uuid # n

WasStored(call) == call.key.type = "UUID" /\ \E g \in Range(call.before.lut) : g.grant_uuid = call.key.n

\* C23 (repeal): repeal with the UUID of a stored grant returns, and afterwards
\* the grant is in neither the primary table nor any index nor on any page,
\* while the other grants keep their places and order in every table; repeal
\* with a key that is not in the table raises GrantNotFoundError and leaves
\* the tables as they were; get_grant of a repealed uuid raises
\* GrantNotFoundError.
C23_Repeal ==
    /\ kc_call.op = "repeal" =>
          IF WasStored(kc_call)
          THEN /\ kc_call.raises = None
               /\ TablesWithout(kc_call.before, kc_call.key.n)
               /\ Gone(kc_call.key.n)
          ELSE /\ kc_call.raises = "GrantNotFoundError"
               /\ Tables = kc_call.before
    /\ (kc_call.op = "get_grant" /\ kc_call.key.n \in kc_repealed) =>
          kc_call.raises = "GrantNotFoundError"
    /\ \A n \in kc_repealed : Gone(n)

\* a grant filed under two actions was repealed from between two others, which
\* remain, and a second repeal of it has failed
C23_Witness ==
    /\ kc_call.op = "repeal"
    /\ kc_call.raises = "GrantNotFoundError"
    /\ kc_call.key = UUID(2)
    /\ 2 \in kc_repealed
    /\ Len(grant_lut) = 2
    /\ \E g \in kc_returned : g.grant_uuid = 2 /\ Cardinality(Range(g.actions)) = 2

\* C24 (enact/get_grant round trip): the grant enact returns carries a
\* grant_uuid that no other grant of the store carries, and get_grant called
\* with the grant_uuid that a returned grant carries returns a grant equal to
\* it, as long as the grant is not repealed.
C24_EnactGetGrantRoundTrip ==
    /\ \A i, j \in 1..Len(grant_lut) :
          grant_lut[i].grant_uuid = grant_lut[j].grant_uuid => i = j
    /\ kc_call.op = "enact" =>
          \A g \in Range(kc_call.before.lut) :
              g.grant_uuid # kc_call.returned[1].grant_uuid
    /\ kc_call.op = "get_grant" =>
          \A r \in kc_returned :
              (kc_call.key = uuid_str(r.grant_uuid) /\ r.grant_uuid \notin kc_repealed)
                  => (kc_call.raises = None /\ kc_call.returned = <<r>>)

\* --------------------------- claims about the validation of the app's inputs
\* C25 (enact rejects invalid grants without effect): AuthzeeAsync.enact of a
\* grant that fails validation raises GrantError, calls no storage operation
\* and leaves the primary table and every index as they were.
C25_EnactRejectsInvalid ==
    (fa_out.op = "enact" /\ ~validate_grants(fa_out.arg).valid) =>
        /\ fa_out.raises = "GrantError"
        /\ fa_out.invoked = FALSE
        /\ Tables = fa_out.before

\* C26 (request validation precedes evaluation): authorize and audit_page of
\* the app called with a request that fails validation raise RequestError, and
\* the compute module is not invoked.
C26_RequestValidationFirst ==
    (fa_out.op \in {"authorize", "audit_page"} /\ ~validate_request(fa_out.arg).valid) =>
        /\ fa_out.raises = "RequestError"
        /\ fa_out.invoked = FALSE

\* the latch of the last call, as it was stored before the call
LatchBefore == lt_call.lut_before[LatchAt(lt_call.lut_before, lt_call.key)]

\* the last call was set_latch on a latch that was already set
SetAgain ==
    /\ lt_call.op = "set_latch"
    /\ in_latch_lut(lt_call.lut_before, lt_call.key)
    /\ LatchBefore.set

\* C27: set_latch on a latch that is already set changes nothing (the latch,
\* its uuid, its created_at and every other latch stay as they were) and the
\* latch reads as set afterwards, in the dict returned and in get_latch's view
\* of the store; SharedMemLatch.set on a latch that is set leaves it as it
\* was, with is_set true
C27_LatchIdempotence ==
    /\ SetAgain =>
          /\ lt_call.raises = None
          /\ latch_lut = lt_call.lut_before
          /\ lt_call.returned = <<LatchBefore>>
          /\ latch_lut[LatchAt(latch_lut, lt_call.key)].set
    /\ (lt_call.op = "SharedMemLatch.set" /\ is_set(lt_call.shm_before)) =>
          /\ lt_shm = lt_call.shm_before
          /\ is_set(lt_shm)

\* set_latch on a set latch, with another latch in the store, and the
\* SharedMemLatch set
C27_Witness ==
    /\ SetAgain
    /\ Len(latch_lut) >= 2
    /\ \E i \in 1..Len(latch_lut) : ~latch_lut[i].set
    /\ is_set(lt_shm)


\* C28: a latch is created unset; a latch on which set_latch has succeeded is
\* set for as long as it is in the store, whatever create_latch, get_latch,
\* set_latch, delete_latch and cleanup_latches calls follow, and get_latch
\* reports it set; set_latch leaves every other latch as it was
C28_LatchOneShot ==
    /\ lt_call.op = "create_latch" =>
          /\ ~lt_call.returned[1].set
          /\ ~latch_lut[Len(latch_lut)].set
          /\ latch_lut[Len(latch_lut)].storage_latch_uuid \notin lt_set
    /\ \A i \in 1..Len(latch_lut) :
          latch_lut[i].storage_latch_uuid \in lt_set => latch_lut[i].set
    /\ (lt_call.op = "get_latch" /\ lt_call.raises = None) =>
          /\ lt_call.returned = <<latch_lut[LatchAt(latch_lut, lt_call.key)]>>
          /\ lt_call.key \in lt_set => lt_call.returned[1].set
    /\ (lt_call.op = "set_latch" /\ lt_call.raises = None) =>
          /\ Len(latch_lut) = Len(lt_call.lut_before)
          /\ \A i \in 1..Len(latch_lut) :
                lt_call.lut_before[i].storage_latch_uuid # lt_call.key =>
                    latch_lut[i] = lt_call.lut_before[i]

\* get_latch reports a latch set that was set before a later latch was
\* created, while that later latch is unset
C28_Witness ==
    /\ lt_call.op = "get_latch"
    /\ lt_call.raises = None
    /\ lt_call.key \in lt_set
    /\ lt_call.returned[1].set
    /\ \E i \in 1..Len(latch_lut) :
          /\ latch_lut[i].storage_latch_uuid > lt_call.key
          /\ ~latch_lut[i].set

\* the last call was get_latch, set_latch or delete_latch with a uuid that
\* was not in the store
LatchAbsent ==
    /\ lt_call.op \in {"get_latch", "set_latch", "delete_latch"}
    /\ ~in_latch_lut(lt_call.lut_before, lt_call.key)

\* C29: get_latch, set_latch and delete_latch with a uuid that is not in the
\* store (never created, deleted by delete_latch or removed by
\* cleanup_latches) fail with LatchNotFoundError and leave the latches as they
\* were; a uuid that delete_latch removed is not in the store afterwards, so
\* a second delete_latch of it fails in the same way
C29_LatchNotFound ==
    /\ LatchAbsent =>
          /\ lt_call.raises = "LatchNotFoundError"
          /\ latch_lut = lt_call.lut_before
    /\ (lt_call.op = "delete_latch" /\ ~LatchAbsent) =>
          ~in_latch_lut(latch_lut, lt_call.key)

\* the latches of a table whose created_at is not earlier than a cutoff
NotEarlier(lut, before) ==
    SelectSeq(lut, LAMBDA latch : fromisoformat(latch.created_at) >= before.t)

\* a step that is a cleanup_latches call
CleanupStep == lt_call' # lt_call /\ lt_call'.op = "cleanup_latches"

\* C30 as stated, for every datetime: cleanup_latches(before) leaves in the
\* store exactly the latches whose created_at is not earlier than before,
\* each as it was, and leaves the grants as they were
C30_CleanupAnyDatetime ==
    [][CleanupStep =>
          /\ latch_lut' = NotEarlier(latch_lut, lt_call'.cutoff)
          /\ UNCHANGED store_vars]_vars

\* C30, for the datetimes the comparison accepts: cleanup_latches(before) with
\* a timezone-aware before, or on a store without latches, returns None and
\* leaves in the store exactly the latches whose created_at is not earlier
\* than before, set or not, each as it was; with a naive before and a latch
\* in the store it raises TypeError and deletes nothing; it leaves the grants
\* as they were
C30_CleanupLatches ==
    [][CleanupStep =>
          /\ IF lt_call'.cutoff.aware \/ latch_lut = <<>>
             THEN /\ lt_call'.raises = None
                  /\ latch_lut' = NotEarlier(latch_lut, lt_call'.cutoff)
             ELSE /\ lt_call'.raises = "TypeError"
                  /\ latch_lut' = latch_lut
          /\ UNCHANGED store_vars]_vars

\* a cleanup that removed a set latch created earlier than before and kept
\* an unset latch created at before, with a grant in the store
C30_Witness ==
    /\ lt_call.op = "cleanup_latches"
    /\ lt_call.raises = None
    /\ lt_call.cutoff.aware
    /\ Len(grant_lut) > 0
    /\ \E i \in 1..Len(lt_call.lut_before) :
          /\ lt_call.lut_before[i].set
          /\ fromisoformat(lt_call.lut_before[i].created_at) < lt_call.cutoff.t
          /\ ~in_latch_lut(latch_lut, lt_call.lut_before[i].storage_latch_uuid)
    /\ \E i \in 1..Len(latch_lut) :
          /\ ~latch_lut[i].set
          /\ fromisoformat(latch_lut[i].created_at) = lt_call.cutoff.t

\* the last call asked for parallel paging over a storage that does not
\* support it
UnsupportedParallel ==
    /\ pp_out.op \in {"authorize", "audit_page"}
    /\ pp_out.args.parallel_paging
    /\ ~pp_out.storage.parallel_paging_supported

\* C31: authorize and audit_page of InProcessCompute called with
\* parallel_paging=true over a storage whose parallel_paging_supported is
\* false end with ParallelPaginationNotSupported and return nothing: no
\* decision, no page of a sequential scan
C31_ParallelPagingUnsupported ==
    UnsupportedParallel =>
        /\ pp_out.raises = "ParallelPaginationNotSupported"
        /\ pp_out.returned = <<>>

\* authorize with parallel paging over such a storage that holds a deny grant
\* matching the request, which a sequential scan would have found
C31_Witness ==
    /\ UnsupportedParallel
    /\ pp_out.op = "authorize"
    /\ \E i \in 1..Len(grant_lut) :
          /\ grant_lut[i].effect = "deny"
          /\ evaluate_one(pp_out.args.request, grant_lut[i]).applicable

\* from shutdown() to the next start() the tables of storage_ptr hold what
\* was stored before shutdown(): the app's instance writes to its new dicts
StoredBeforeShutdown == Range(grant_lut) \cup Range(latch_lut)

\* C32: after shutdown() the grants and latches stored before are gone: no
\* read made after shutdown(), through the app's storage instance or
\* through another InProcessStorage instance bound to the same storage_ptr,
\* returns any of them
C32_ShutdownLosesStorage ==
    (rd_out.op # None /\ rd_out.after_shutdown) =>
        (Range(rd_out.grants) \cup Range(rd_out.latches)) \cap StoredBeforeShutdown = {}

\* what the inner compute returns for the arguments of the last delegated call
InnerReturns ==
    IF mp_out.op = "authorize" THEN authorize(mp_out.args)
    ELSE audit_page(mp_out.args.request, mp_out.args.page_ref, mp_out.args.grants_page_size,
                    mp_out.args.parallel_paging, mp_out.args.refs_page_size).resp

\* C33: MultiprocessCompute.authorize and audit_page return exactly what the
\* inner compute's authorize and audit_page return for the same arguments over
\* the same store, whatever calls came before the call and whatever calls
\* await the executor beside it
C33_DelegatedTransparent ==
    mp_out.op \in {"authorize", "audit_page"} =>
        /\ mp_out.raises = None
        /\ mp_out.returned = <<InnerReturns>>

\* whether a list holds the grant of a uuid
Holds(list, grant_uuid) == \E i \in 1..Len(list) : list[i].grant_uuid = grant_uuid

\* the grant of a uuid is in the primary table and in every index it belongs in
InAll(grant) ==
    /\ Holds(grant_lut, grant.grant_uuid)
    /\ Holds(grant_effect_filter[grant.effect], grant.grant_uuid)
    /\ \A k \in Range(IndexKeys(grant)) :
          /\ k \in DOMAIN grant_action_filter
          /\ Holds(grant_action_filter[k], grant.grant_uuid)
          /\ Holds(grant_both_filter[grant.effect][k], grant.grant_uuid)

\* C34: an enact call either adds the grant to the primary table and to every
\* index it belongs in, or, when it raises, leaves the tables as they were; in
\* every state each grant ever passed to enact is in all of its tables or in none
C34_EnactAtomic ==
    /\ ix_call.op = "enact" =>
          IF ix_call.raises = None THEN InAll(ix_call.grant)
          ELSE Tables = ix_call.before
    /\ \A g \in Range(grant_lut) \cup UNION {Range(grant_effect_filter[e]) : e \in Effects} :
          InAll(g)

\* how often a list holds a grant
Occurrences(list, grant) == Cardinality({i \in 1..Len(list) : list[i] = grant})

\* a list holds its grants in the order of their enactment
InEnactmentOrder(list) ==
    \A i, j \in 1..Len(list) : i < j => list[i].grant_uuid < list[j].grant_uuid

\* every grant held by the primary table or by an index
Filed ==
    Range(grant_lut)
        \cup UNION {Range(grant_effect_filter[e]) : e \in Effects}
        \cup UNION {Range(grant_action_filter[k]) : k \in ActionKeys}
        \cup UNION {Range(grant_both_filter[e][k]) : e \in Effects, k \in ActionKeys}

\* C35: after any sequence of enact and repeal, every grant held anywhere is
\* once in the primary table, once in the by-effect list of its effect, once
\* in the by-action list and in the by-(effect, action) list of each of its
\* actions (of the all-actions key when it has no action), and in no other
\* list; no two grants share a uuid; every list is in enactment order
C35_IndexConsistency ==
    /\ \A g \in Filed :
          /\ Occurrences(grant_lut, g) = 1
          /\ \A e \in Effects :
                /\ Occurrences(grant_effect_filter[e], g) = IF e = g.effect THEN 1 ELSE 0
                /\ \A k \in ActionKeys :
                      Occurrences(grant_both_filter[e][k], g) =
                          IF e = g.effect /\ k \in Range(IndexKeys(g)) THEN 1 ELSE 0
          /\ \A k \in ActionKeys :
                Occurrences(grant_action_filter[k], g) =
                    IF k \in Range(IndexKeys(g)) THEN 1 ELSE 0
    /\ \A g, h \in Filed : g.grant_uuid = h.grant_uuid => g = h
    /\ InEnactmentOrder(grant_lut)
    /\ \A e \in Effects :
          /\ InEnactmentOrder(grant_effect_filter[e])
          /\ \A k \in ActionKeys : InEnactmentOrder(grant_both_filter[e][k])
    /\ \A k \in ActionKeys : InEnactmentOrder(grant_action_filter[k])

\* the live grants that a read filtered by effect and action pages over: those
\* that list the action, then those without actions
LiveFiltered(effect, action) ==
    LET of_effect == SelectSeq(sw_live, LAMBDA g : effect = None \/ g.effect = effect)
    IN  SelectSeq(of_effect, LAMBDA g : action \in Range(g.actions))
            \o SelectSeq(of_effect, LAMBDA g : g.actions = <<>>)

\* C36: under any sequence of enact and repeal through the app after start(),
\* every authorize and audit_page call has the compute scan exactly the grants
\* that the app's get_grants_page returns for the same filters, and these are
\* the grants that enact returned and repeal has not removed since
C36_SharedStorage ==
    (sw_out.op \in {"authorize", "audit_page"} /\ sw_out.bound) =>
        /\ sw_out.raises = None
        /\ sw_out.facade_raises = None
        /\ sw_out.compute = sw_out.facade
        /\ sw_out.compute = LiveFiltered(sw_out.effect, sw_out.action)

\* the stored grants that no write touched since the scan began
PresentThroughout == {g \in Stored : g.grant_uuid \notin cw_touched}

\* C37: when an iteration of get_grants_page has ended, every grant that fits
\* the filters and was in the store for the whole iteration was returned by
\* exactly one page, whatever was enacted or repealed between the page calls
C37_ScanUnderWriters ==
    sc_pc = "done" =>
        \A g \in PresentThroughout :
            Satisfies(g, sc_args.effect, sc_args.action) => Occurrences(sc_grants, g) = 1

\* C38: every scan ends: following next_page_ref from None, the loop of page
\* calls stops after finitely many calls (with next_page_ref None, or with an
\* exception), for every store content, filter and sizes from 0 up
C38_ScanEnds == (pg_pc = "scan") ~> (pg_pc \in {"done", "returned", "raised"})

\* C39: when start() raises, the app holds no storage and no compute instance,
\* and an enact or authorize call on an app that was never started fails
C39_FailedStart ==
    /\ (life_out.op = "start" /\ life_out.raises # None) =>
           (~eng.has_storage /\ eng.compute = None)
    /\ (life_out.op \in {"enact", "authorize"} /\ life_out.state = "Created") =>
           life_out.raises # None

====
